---------------------------- MODULE Spec2Model ----------------------------
(***************************************************************************)
(* A model of the FSX/template package: the lexer (a goroutine that sends  *)
(* items over an unbuffered channel), the recursive-descent parser that    *)
(* receives them and builds the node tree, the NodeMap registry and the    *)
(* renderer Template.Execute.                                              *)
(*                                                                         *)
(* Text is a sequence of bytes, each byte a one-character string.  The     *)
(* lexer and the parser are written as operators that follow the Go        *)
(* functions line by line; each returns the record it was given, updated.  *)
(* Both append to a log ("ev") every step another goroutine can observe:   *)
(* the lexer its writes of l.pos and its channel sends, the parser its     *)
(* channel receives, its calls of errorf and its return.  The actions of   *)
(* the specification replay the two logs as two processes that meet at the *)
(* channel.                                                                *)
(***************************************************************************)
EXTENDS Integers, Sequences, FiniteSets, TLC

(***************************************************************************)
(* Bytes, runes and strings                                                *)
(***************************************************************************)

eof == "eof"

Letters ==
    {"a", "b", "c", "d", "e", "f", "g", "h", "i", "j", "k", "l", "m", "n",
     "o", "p", "q", "r", "s", "t", "u", "v", "w", "x", "y", "z",
     "A", "B", "C", "D", "E", "F", "X"}

Digits == {"0", "1", "2", "3", "4", "5", "6", "7", "8", "9"}

HexDigits == Digits \cup {"a", "b", "c", "d", "e", "f", "A", "B", "C", "D", "E", "F"}

isAlpha(r) == r = "_" \/ r \in Letters

isNumeric(r) == r \in Digits

isAlphaNumeric(r) == r = "_" \/ r \in Letters \/ r \in Digits

isSpace(r) == r = " " \/ r = "\t"

\* Only the line feed ends a line.
isEndOfLineLF(r) == r = "\n"

isEndOfLine(r) == r = "\r" \/ r = "\n"

\* The bytes of s from offset a (0-based, inclusive) to offset b (exclusive): s[a:b].
Slice(s, a, b) == SubSeq(s, a + 1, b)

\* s[a:]
Drop(s, a) == SubSeq(s, a + 1, Len(s))

HasPrefix(s, prefix) ==
    /\ Len(s) >= Len(prefix)
    /\ SubSeq(s, 1, Len(prefix)) = prefix

\* strings.Index: the offset of the first occurrence of sub in s, or -1.
Index(s, sub) ==
    LET hits == {i \in 0..(Len(s) - Len(sub)) : Slice(s, i, i + Len(sub)) = sub}
    IN  IF hits = {} THEN -1 ELSE CHOOSE i \in hits : \A j \in hits : i <= j

\* strings.LastIndex: the offset of the last occurrence of sub in s, or -1.
LastIndex(s, sub) ==
    LET hits == {i \in 0..(Len(s) - Len(sub)) : Slice(s, i, i + Len(sub)) = sub}
    IN  IF hits = {} THEN -1 ELSE CHOOSE i \in hits : \A j \in hits : i >= j

\* strings.Count of a one-byte substring.
Count(s, b) == Cardinality({i \in 1..Len(s) : s[i] = b})

\* A byte sequence as a string value (what %s prints).
RECURSIVE Str(_)
Str(s) == IF s = <<>> THEN "" ELSE Head(s) \o Str(Tail(s))

\* strings.Join
RECURSIVE Join(_, _)
Join(parts, sep) ==
    IF parts = <<>> THEN <<>>
    ELSE IF Len(parts) = 1 THEN parts[1]
    ELSE parts[1] \o sep \o Join(Tail(parts), sep)

DigitChar(d) ==
    CASE d = 0 -> "0" [] d = 1 -> "1" [] d = 2 -> "2" [] d = 3 -> "3" [] d = 4 -> "4"
      [] d = 5 -> "5" [] d = 6 -> "6" [] d = 7 -> "7" [] d = 8 -> "8" [] d = 9 -> "9"

\* %d
RECURSIVE Itoa(_)
Itoa(n) ==
    IF n < 0 THEN "-" \o Itoa(0 - n)
    ELSE IF n < 10 THEN DigitChar(n)
    ELSE Itoa(n \div 10) \o DigitChar(n % 10)

\* The four hex digits of a rune's code point.
CodePoint(r) ==
    CASE r = "\t" -> "0009" [] r = "\n" -> "000A" [] r = "\r" -> "000D"
      [] r = " " -> "0020" [] r = "!" -> "0021" [] r = "\"" -> "0022"
      [] r = "#" -> "0023" [] r = "$" -> "0024" [] r = "%" -> "0025"
      [] r = "(" -> "0028" [] r = ")" -> "0029" [] r = "+" -> "002B"
      [] r = "-" -> "002D" [] r = "." -> "002E" [] r = "/" -> "002F"
      [] r = "<" -> "003C" [] r = ">" -> "003E" [] r = "\\" -> "005C"
      [] r = "^" -> "005E" [] r = "_" -> "005F"
      [] r \in Digits -> "003" \o r
      [] OTHER -> "????"

\* %#U of a printable rune: U+0025 '%'
FormatU(r) == "U+" \o CodePoint(r) \o " '" \o r \o "'"

\* %q of a string that needs no escapes.
FormatQ(s) == "\"" \o Str(s) \o "\""

(***************************************************************************)
(* The lexer                                                               *)
(***************************************************************************)

leftDelim == <<"(", "(">>

rightDelim == <<")", ")">>

\* item{typ, pos, val}
item(typ, pos, val) == [typ |-> typ, pos |-> pos, val |-> val]

\* The lexer's goroutine-visible steps.
PosEv(v) == [k |-> "pos", v |-> v]

\* l.items <- it, sent by the state function l.state.
EmitEv(l, it) == [k |-> "emit", item |-> it, state |-> l.state]

setPos(l, v) == [l EXCEPT !.pos = v, !.ev = Append(@, PosEv(v))]

\* next returns the next rune in the input (in field r).
lexer_next(l) ==
    IF l.pos >= Len(l.input)
    THEN [l EXCEPT !.width = 0, !.r = eof]
    ELSE [setPos(l, l.pos + 1) EXCEPT !.width = 1, !.r = l.input[l.pos + 1]]

\* backup steps back one rune.
lexer_backup(l) == setPos(l, l.pos - l.width)

\* peek returns but does not consume the next rune in the input.
lexer_peek(l) == lexer_backup(lexer_next(l))

\* emit passes an item back with the offset the scan has reached.
emitAtPos(l, t) ==
    [l EXCEPT !.ev = Append(@, EmitEv(l, item(t, l.pos, Slice(l.input, l.start, l.pos)))),
              !.start = l.pos]

\* emit passes an item back to the client.
emit(l, t) ==
    [l EXCEPT !.ev = Append(@, EmitEv(l, item(t, l.start, Slice(l.input, l.start, l.pos)))),
              !.start = l.pos]

\* ignore skips over the pending input before this point.
ignore(l) == [l EXCEPT !.start = l.pos]

\* accept consumes the next rune if it's from the valid set (result in field ok).
acceptRune(l1, valid) ==
    IF l1.r \in valid THEN [l1 EXCEPT !.ok = TRUE]
    ELSE [lexer_backup(l1) EXCEPT !.ok = FALSE]

accept(l, valid) == acceptRune(lexer_next(l), valid)

\* acceptRun consumes a run of runes from the valid set.
RECURSIVE acceptRun(_, _)
RECURSIVE acceptRunRune(_, _)
acceptRunRune(l1, valid) ==
    IF l1.r \in valid THEN acceptRun(l1, valid) ELSE lexer_backup(l1)

acceptRun(l, valid) == acceptRunRune(lexer_next(l), valid)

\* errorf sends an error item and goes on scanning text.
lexer_errorfResuming(l, msg) ==
    [l EXCEPT !.ev = Append(@, EmitEv(l, item("itemError", l.start, msg))),
              !.state = "lexText"]

\* errorf sends an error item and terminates the scan (state nil).
lexer_errorf(l, msg) ==
    [l EXCEPT !.ev = Append(@, EmitEv(l, item("itemError", l.start, msg))),
              !.state = "nil"]

\* A state function returns the next state.
goto(l, state) == [l EXCEPT !.state = state]

\* scanNumber: if l.accept("0") && l.accept("xX") { digits = "0123456789abcdefABCDEF" }
scanNumberDigits(l3) == [l3 EXCEPT !.digits = IF l3.ok THEN HexDigits ELSE Digits]

scanNumberHex(l2) ==
    IF l2.ok THEN scanNumberDigits(accept(l2, {"x", "X"}))
    ELSE [l2 EXCEPT !.digits = Digits]

\* scanNumber: l.acceptRun(digits)
scanNumberRun(l) == acceptRun(l, l.digits)

\* scanNumber: if l.accept(".") { l.acceptRun(digits) }
scanNumberFraction(l5) == IF l5.ok THEN acceptRun(l5, l5.digits) ELSE l5

\* scanNumber: if l.accept("eE") { l.accept("+-"); l.acceptRun("0123456789") }
scanNumberExponent(l7) ==
    IF l7.ok THEN acceptRun(accept(l7, {"+", "-"}), Digits) ELSE l7

\* scanNumber: the next thing mustn't be alphanumeric.
scanNumberEnd(l10) ==
    IF isAlphaNumeric(l10.r) THEN [lexer_next(l10) EXCEPT !.ok = FALSE]
    ELSE [l10 EXCEPT !.ok = TRUE]

\* scanNumber scans a number (result in field ok).
scanNumber(l) ==
    scanNumberEnd(lexer_peek(accept(
        scanNumberExponent(accept(
            scanNumberFraction(accept(
                scanNumberRun(scanNumberHex(accept(accept(l, {"+", "-"}), {"0"}))),
                {"."})),
            {"e", "E"})),
        {"i"})))

RECURSIVE lexSpaceLoop(_)
RECURSIVE lexSpaceRune(_)
lexSpaceRune(l1) == IF isSpace(l1.r) THEN lexSpaceLoop(lexer_next(l1)) ELSE l1

lexSpaceLoop(l) == lexSpaceRune(lexer_peek(l))

makeLexSpace(l, nextState) == goto(emit(lexSpaceLoop(l), "itemSpace"), nextState)

\* The text before a delimiter or the end of the input, sent only when longer than one byte.
emitTextLong(l) == IF l.pos > l.start + 1 THEN emit(l, "itemText") ELSE l

\* emit(itemText) when l.pos > l.start
emitText(l) == IF l.pos > l.start THEN emit(l, "itemText") ELSE l

RECURSIVE lexText(_)
RECURSIVE lexTextRune(_)
lexTextRune(l1) ==
    IF l1.r = eof THEN goto(emit(emitText(l1), "itemEOF"), "nil")
    ELSE lexText(l1)

lexText(l) ==
    IF HasPrefix(Drop(l.input, l.pos), l.leftDelim) THEN goto(emitText(l), "lexLeftDelim")
    ELSE lexTextRune(lexer_next(l))

lexLeftDelim(l) ==
    goto(emit(setPos(l, l.pos + Len(l.leftDelim)), "itemLeftDelim"), "lexTag")

lexRightDelim(l) ==
    goto(emit(setPos(l, l.pos + Len(l.rightDelim)), "itemRightDelim"), "lexText")

lexTagRune(l1) ==
    CASE l1.r \in {"#", "^"} -> goto(emit(l1, "itemTagType"), "lexExpressionTag")
      [] l1.r \in {"<", ">", "/", "$"} -> goto(emit(l1, "itemTagType"), "lexNameTag")
      [] l1.r = "!" -> goto(emit(l1, "itemTagType"), "lexComment")
      [] OTHER -> goto(lexer_backup(l1), "lexExpressionTag")

lexTag(l) == lexTagRune(lexer_next(l))

\* lexComment: n, the offset of the next left delimiter, or of the end of the input.
\* The comment may run to the end of the input, whatever it holds.
lexCommentEndOfInput(l, n) == Len(l.input)

\* n := strings.Index(l.input[l.pos:], l.leftDelim); if n < 0 { n = len(l.input) } else
\* { n = int(l.pos) + n }
lexCommentEnd(l, n) == IF n < 0 THEN Len(l.input) ELSE l.pos + n

lexCommentAt(l, i) ==
    IF i < 0 THEN lexer_errorf(l, "unclosed comment")
    ELSE goto(emit(setPos(l, l.pos + i), "itemString"), "lexRightDelim")

lexComment(l) ==
    lexCommentAt(l, Index(Slice(l.input, l.pos,
                                lexCommentEnd(l, Index(Drop(l.input, l.pos), l.leftDelim))),
                          l.rightDelim))

lexExpressionTagRune(l1, r) ==
    CASE r = eof \/ isEndOfLine(r) -> lexer_errorf(l1, "unclosed tag")
      [] isSpace(r) -> goto(l1, "lexSpaceExpr")
      [] isAlpha(r) -> goto(lexer_backup(l1), "lexIdentifier")
      [] isNumeric(r) \/ r = "-" \/ r = "+" -> goto(lexer_backup(l1), "lexNumber")
      [] r = "\"" -> goto(ignore(l1), "lexString")
      [] OTHER -> lexer_errorf(l1, "unrecognized character in tag: " \o FormatU(r))

lexExpressionTagNext(l1) == lexExpressionTagRune(l1, l1.r)

lexExpressionTag(l) ==
    IF HasPrefix(Drop(l.input, l.pos), l.rightDelim) THEN goto(l, "lexRightDelim")
    ELSE lexExpressionTagNext(lexer_next(l))

RECURSIVE lexIdentifier(_)
RECURSIVE lexIdentifierRune(_)
RECURSIVE lexIdentifierDot(_)
\* lexIdentifier: after the dot, if s := l.peek(); !isAlphaNumeric(s) { errorf(..., r) }
lexIdentifierDot(l3) ==
    IF ~isAlphaNumeric(l3.r)
    THEN lexer_errorf(l3, "unrecognized character in identifier: " \o FormatU("."))
    ELSE lexIdentifier(l3)

lexIdentifierRune(l1) ==
    CASE isAlphaNumeric(l1.r) -> lexIdentifier(lexer_next(l1))
      [] l1.r = "." ->
            lexIdentifierDot(lexer_peek(
                emit(lexer_next(emit(l1, "itemIdentifier")), "itemDot")))
      [] OTHER -> goto(emit(l1, "itemIdentifier"), "lexExpressionTag")

lexIdentifier(l) == lexIdentifierRune(lexer_peek(l))

badNumber(l) ==
    lexer_errorf(l, "bad number syntax: " \o FormatQ(Slice(l.input, l.start, l.pos)))

\* lexNumber: the second scanNumber of a complex constant, which must end in 'i'.
lexNumberComplex(l3) ==
    IF ~l3.ok \/ l3.input[l3.pos] # "i" THEN badNumber(l3)
    ELSE goto(emit(l3, "itemComplex"), "lexExpressionTag")

lexNumberSign(l2) ==
    IF l2.r = "+" \/ l2.r = "-" THEN lexNumberComplex(scanNumber(l2))
    ELSE goto(emit(l2, "itemNumber"), "lexExpressionTag")

lexNumberScanned(l1) == IF ~l1.ok THEN badNumber(l1) ELSE lexNumberSign(lexer_peek(l1))

lexNumber(l) == lexNumberScanned(scanNumber(l))

RECURSIVE lexString(_)
RECURSIVE lexStringRune(_)
RECURSIVE lexStringEscape(_)
\* lexString: case '\\': if r := l.next(); r != eof && r != '\n' { break }; fallthrough
lexStringEscape(l2) ==
    IF l2.r # eof /\ l2.r # "\n" THEN lexString(l2)
    ELSE lexer_errorf(l2, "unterminated quoted string")

lexStringRune(l1) ==
    CASE l1.r = "\\" -> lexStringEscape(lexer_next(l1))
      [] l1.r = eof \/ l1.r = "\n" -> lexer_errorf(l1, "unterminated quoted string")
      [] l1.r = "\"" ->
            goto(ignore(lexer_next(emit(lexer_backup(l1), "itemString"))),
                 "lexExpressionTag")
      [] OTHER -> lexString(l1)

lexString(l) == lexStringRune(lexer_next(l))

lexNameTagRune(l1, r) ==
    CASE r = eof \/ isEndOfLine(r) -> lexer_errorf(l1, "unclosed tag")
      [] isSpace(r) -> goto(l1, "lexSpaceName")
      [] isAlpha(r) -> goto(lexer_backup(l1), "lexName")
      [] OTHER -> lexer_errorf(l1, "unrecognized character in tag: " \o FormatU(r))

lexNameTagNext(l1) == lexNameTagRune(l1, l1.r)

lexNameTag(l) ==
    IF HasPrefix(Drop(l.input, l.pos), l.rightDelim) THEN goto(l, "lexRightDelim")
    ELSE lexNameTagNext(lexer_next(l))

RECURSIVE lexNameLoop(_)
RECURSIVE lexNameRune(_)
lexNameRune(l1) ==
    IF ~isAlphaNumeric(l1.r) /\ l1.r # "." /\ l1.r # "/" THEN l1 ELSE lexNameLoop(l1)

lexNameLoop(l) == lexNameRune(lexer_next(l))

lexNameFirst(l1) ==
    IF ~isAlpha(l1.r)
    THEN lexer_errorf(l1, "name must begin with a letter, but got: " \o FormatU(l1.r))
    ELSE goto(emit(lexer_backup(lexNameLoop(l1)), "itemName"), "lexNameTag")

lexName(l) == lexNameFirst(lexer_next(l))

\* One call of the lexer's current state function.
stateFn(l) ==
    CASE l.state = "lexText" -> lexText(l)
      [] l.state = "lexLeftDelim" -> lexLeftDelim(l)
      [] l.state = "lexRightDelim" -> lexRightDelim(l)
      [] l.state = "lexTag" -> lexTag(l)
      [] l.state = "lexComment" -> lexComment(l)
      [] l.state = "lexExpressionTag" -> lexExpressionTag(l)
      [] l.state = "lexSpaceExpr" -> makeLexSpace(l, "lexExpressionTag")
      [] l.state = "lexSpaceName" -> makeLexSpace(l, "lexNameTag")
      [] l.state = "lexIdentifier" -> lexIdentifier(l)
      [] l.state = "lexNumber" -> lexNumber(l)
      [] l.state = "lexString" -> lexString(l)
      [] l.state = "lexNameTag" -> lexNameTag(l)
      [] l.state = "lexName" -> lexName(l)

\* l.state = l.state(l) has taken l to l1: the call is noted with the state function,
\* l.pos before and after it, and the state function it returned.
called(l, l1) ==
    [l1 EXCEPT !.calls = Append(@, [state |-> l.state, from |-> l.pos, to |-> l1.pos,
                                    next |-> l1.state])]

\* run runs the state machine for the lexer.
RECURSIVE run(_)
run(l) == IF l.state = "nil" THEN l ELSE run(called(l, stateFn(l)))

\* lex creates a new scanner for the input string; its goroutine's steps are run(...).ev.
lex(name, input, left, right) ==
    [name |-> name, input |-> input,
     leftDelim |-> IF left = <<>> THEN leftDelim ELSE left,
     rightDelim |-> IF right = <<>> THEN rightDelim ELSE right,
     state |-> "lexText", pos |-> 0, start |-> 0, width |-> 0, lastPos |-> 0,
     ev |-> <<>>, calls |-> <<>>, r |-> eof, ok |-> FALSE, digits |-> Digits]

\* The items the lexer sends, in order.
IsEmit(e) == e.k = "emit"

ItemsOf(es) == [i \in 1..Len(es) |-> es[i].item]

Items(ev) == ItemsOf(SelectSeq(ev, IsEmit))

(***************************************************************************)
(* The node tree                                                           *)
(***************************************************************************)

Nil == [kind |-> "nil"]

newList == [kind |-> "list", children |-> <<>>]

newText(text) == [kind |-> "text", Text |-> text]

newVariable(head, tail) == [kind |-> "variable", Head |-> head, Tail |-> tail]

newComment(text) == [kind |-> "comment", Text |-> text]

newSection(head, tail, inverted) ==
    [kind |-> "section", Head |-> head, Tail |-> tail, Inverted |-> inverted,
     children |-> <<>>]

newPartial(name) == [kind |-> "partial", name |-> name]

\* tmpls is the map from bucket name to the nodes appended under it.
newInherit(name) == [kind |-> "inherit", name |-> name, tmpls |-> <<>>]

newDefine(name) == [kind |-> "define", name |-> name, children |-> <<>>]

newClose(name) == [kind |-> "close", name |-> name]

newIdentifier(path) == [kind |-> "identifier", path |-> path]

newString(text) == [kind |-> "string", Text |-> text]

newNumber(text) == [kind |-> "number", Text |-> text]

\* The node kinds that implement NamedNode.
IsNamed(n) == n.kind \in {"section", "partial", "inherit", "define", "close", "identifier"}

\* The node kinds that implement ParentNode.
IsParent(n) == n.kind \in {"list", "section", "inherit", "define"}

Name(n) ==
    CASE n.kind = "identifier" -> Join(n.path, <<".">>)
      [] n.kind = "section" -> Join(n.Head.path, <<".">>)
      [] OTHER -> n.name

defaultBucket == <<"d", "e", "f", "a", "u", "l", "t">>

inheritAppend(i, n) ==
    LET name == IF n.kind = "define" THEN Name(n) ELSE defaultBucket
    IN  IF name \in DOMAIN i.tmpls
        THEN [i EXCEPT !.tmpls[name] = Append(@, n)]
        ELSE [i EXCEPT !.tmpls = @ @@ (name :> <<n>>)]

\* The orders in which a range over a map with the keys S may visit them: the
\* iteration order of a Go map is not specified and differs from one range to the next.
RangeOrders(S) ==
    {o \in [1..Cardinality(S) -> S] : \A i, j \in DOMAIN o : o[i] = o[j] => i = j}

\* for _, n := range i.tmpls { children = append(children, n...) }, the buckets being
\* visited in order.
RECURSIVE inheritChildren(_, _)
inheritChildren(i, order) ==
    IF order = <<>> THEN <<>>
    ELSE i.tmpls[Head(order)] \o inheritChildren(i, Tail(order))

\* Append of listNode, sectionNode, defineNode and inheritNode.
NodeAppend(parent, n) ==
    IF parent.kind = "inherit" THEN inheritAppend(parent, n)
    ELSE [parent EXCEPT !.children = Append(@, n)]

(***************************************************************************)
(* The parser                                                              *)
(***************************************************************************)

\* The zero item: its typ is 0, which is itemError.
zeroItem == item("itemError", 0, "")

\* What a receive yields when the lexer sends nothing more: the parser blocks.
noItem == item("none", 0, <<>>)

\* The parser's steps, each with what the parser has done so far: the number of nodes
\* appended, the names of the containers whose parse call is active (innermost last),
\* and the container tags parse was called for and the closing tags it has met, each
\* with the containers open at that time.
RecvEv(p) == [k |-> "recv", nodes |-> p.nodes, open |-> p.open, tags |-> p.tags]

ErrorfEv(p, msg) ==
    [k |-> "errorf", msg |-> msg, nodes |-> p.nodes, open |-> p.open, tags |-> p.tags]

ReturnEv(p, root) ==
    [k |-> "return", root |-> root, failed |-> p.failed, nodes |-> p.nodes,
     open |-> p.open, tags |-> p.tags]

\* %s of an item's val.
ValStr(t) == IF t.typ = "itemError" THEN t.val ELSE Str(t.val)

\* p.token[0] = p.lex.nextItem()
nextItem(p) ==
    IF p.k < Len(p.items)
    THEN [p EXCEPT !.token[1] = p.items[p.k + 1], !.k = @ + 1, !.ev = Append(@, RecvEv(p))]
    ELSE [p EXCEPT !.token[1] = noItem, !.hung = TRUE, !.ev = Append(@, RecvEv(p))]

\* return p.token[p.peekCount]
tokenAt(q) == [q EXCEPT !.t = q.token[q.peekCount + 1]]

\* return p.token[p.peekCount-1]
tokenBefore(q) == [q EXCEPT !.t = q.token[q.peekCount]]

\* next returns the next token (in field t).
parser_next(p) ==
    tokenAt(IF p.peekCount > 0 THEN [p EXCEPT !.peekCount = @ - 1] ELSE nextItem(p))

parser_backup(p) == [p EXCEPT !.peekCount = @ + 1]

\* peek returns but does not consume the next token (in field t).
parser_peek(p) ==
    IF p.peekCount > 0 THEN tokenBefore(p)
    ELSE tokenBefore(nextItem([p EXCEPT !.peekCount = 1]))

\* The next token, a space or not.
nextAnyToken(p) == parser_next(p)

RECURSIVE nextNonSpace(_)
RECURSIVE nextNonSpaceToken(_)
nextNonSpaceToken(q) == IF q.t.typ # "itemSpace" THEN q ELSE nextNonSpace(q)

nextNonSpace(p) == nextNonSpaceToken(parser_next(p))

\* peekNonSpace without its p.backup(): the token it returns is consumed.
peekNonSpaceConsuming(p) == nextNonSpace(p)

peekNonSpace(p) == parser_backup(nextNonSpace(p))

\* errorf records the formatted message whatever p.token[0] is.
parser_errorfFormatted(p, format) ==
    [p EXCEPT !.failed = TRUE, !.ev = Append(@, ErrorfEv(p, format)), !.n = Nil]

\* errorf records the error and returns nil; format is the formatted message.
parser_errorf(p, format) ==
    [p EXCEPT !.failed = TRUE,
              !.ev = Append(@, ErrorfEv(p, IF p.token[1].typ = "itemError"
                                           THEN p.token[1].val ELSE format)),
              !.n = Nil]

\* A parse function's returned node (in field n).
ret(p, n) == [p EXCEPT !.n = n]

RECURSIVE parseIdentifierLoop(_)
RECURSIVE parseIdentifierToken(_)
parseIdentifierToken(q) ==
    CASE q.t.typ = "itemIdentifier" ->
            parseIdentifierLoop(parser_next([q EXCEPT !.s = Append(@, q.t.val)]))
      [] q.t.typ = "itemDot" -> parseIdentifierLoop(parser_next(q))
      [] OTHER -> ret(q, newIdentifier(q.s))

parseIdentifierLoop(p) == parseIdentifierToken(parser_peek(p))

parseIdentifier(p) == parseIdentifierLoop([p EXCEPT !.s = <<>>])

\* tail = append(tail, p.parseIdentifier())
appendIdentifier(q1) == [q1 EXCEPT !.tl = Append(@, q1.n)]

RECURSIVE parseExpressionLoop(_)
RECURSIVE parseExpressionToken(_)
parseExpressionToken(q) ==
    CASE q.t.typ = "itemIdentifier" ->
            parseExpressionLoop(appendIdentifier(parseIdentifier(q)))
      [] q.t.typ = "itemString" ->
            parseExpressionLoop([nextNonSpace(q) EXCEPT !.tl = Append(@, newString(q.t.val))])
      [] q.t.typ = "itemNumber" ->
            parseExpressionLoop([nextNonSpace(q) EXCEPT !.tl = Append(@, newNumber(q.t.val))])
      [] OTHER -> q

parseExpressionLoop(p) == parseExpressionToken(peekNonSpace(p))

\* The tail is read whatever the head is.
parseExpressionTailAlways(q1) == parseExpressionLoop([q1 EXCEPT !.head = q1.n, !.tl = <<>>])

\* parseExpression: the tail is read only when the head is an identifier.
parseExpressionTail(q1) ==
    IF q1.n.kind = "identifier"
    THEN parseExpressionLoop([q1 EXCEPT !.head = q1.n, !.tl = <<>>])
    ELSE [q1 EXCEPT !.head = q1.n, !.tl = <<>>]

parseExpressionHead(q) ==
    CASE q.t.typ = "itemIdentifier" -> parseIdentifier(q)
      [] q.t.typ = "itemString" -> ret(nextNonSpace(q), newString(q.t.val))
      [] q.t.typ = "itemNumber" -> ret(nextNonSpace(q), newNumber(q.t.val))
      [] OTHER -> ret(q, Nil)

\* parseExpression returns the head in field head and the tail in field tl.
parseExpression(p) == parseExpressionTail(parseExpressionHead(peekNonSpace(p)))

parseNameToken(q) ==
    IF q.t.typ # "itemName"
    THEN [parser_errorf(q, "expected a delimiter, but got: " \o ValStr(q.t))
            EXCEPT !.nm = <<>>]
    ELSE [q EXCEPT !.nm = q.t.val]

\* parseName returns the name in field nm (empty on error).
parseName(p) == parseNameToken(nextNonSpace(p))

parseVariableEnd(q1) ==
    IF q1.t.typ # "itemRightDelim"
    THEN parser_errorf(q1, "unexpected token: " \o ValStr(q1.t))
    ELSE ret(q1, newVariable(q1.head, q1.tl))

parseVariable(p) == parseVariableEnd(nextNonSpace(parseExpression(p)))

parseCommentEnd(q1) ==
    IF q1.t.typ = "itemRightDelim" THEN ret(q1, newComment(q1.v))
    ELSE parser_errorf(q1, "unexpected token: " \o ValStr(q1.t))

parseCommentText(q) ==
    IF q.t.typ = "itemString"
    THEN parseCommentEnd(nextNonSpace([q EXCEPT !.v = q.t.val]))
    ELSE parseCommentEnd([q EXCEPT !.v = <<>>])

parseComment(p) == parseCommentText(nextNonSpace(p))

parsePartialEnd(q1) ==
    IF q1.t.typ # "itemRightDelim"
    THEN parser_errorf(q1, "expected a delimiter, but got: " \o ValStr(q1.t))
    ELSE ret(q1, newPartial(q1.nm))

parsePartialName(q) == IF q.nm = <<>> THEN ret(q, Nil) ELSE parsePartialEnd(nextNonSpace(q))

parsePartial(p) == parsePartialName(parseName(p))

parseCloseEnd(q1) ==
    IF q1.t.typ # "itemRightDelim"
    THEN parser_errorf(q1, "expected a delimiter, but got: " \o ValStr(q1.t))
    ELSE ret(q1, newClose(q1.nm))

parseCloseName(q) == IF q.nm = <<>> THEN ret(q, Nil) ELSE parseCloseEnd(nextNonSpace(q))

parseClose(p) == parseCloseName(parseName(p))

RECURSIVE parse(_, _)
RECURSIVE parseLoop(_, _, _, _)
RECURSIVE parseToken(_, _, _, _)
RECURSIVE parseNode(_, _, _, _)
RECURSIVE parseCloseNode(_, _, _)
RECURSIVE textOrTag(_)
RECURSIVE textOrTagToken(_)
RECURSIVE parseTag(_)
RECURSIVE parseTagToken(_)
RECURSIVE parseTagType(_, _)
RECURSIVE parseBody(_, _)
RECURSIVE parseSection(_, _)
RECURSIVE parseSectionHead(_, _)
RECURSIVE parseSectionEnd(_, _)
RECURSIVE parseDefine(_)
RECURSIVE parseDefineName(_)
RECURSIVE parseDefineEnd(_)
RECURSIVE parseInherit(_)
RECURSIVE parseInheritName(_)
RECURSIVE parseInheritEnd(_)

\* What parse leaves: the parser in field p, the container in field parent, and the
\* returned p.err == nil in field ok.
parseResult(q, c) == [p |-> q, parent |-> c, ok |-> ~q.failed]

\* parse: if n := p.textOrTag(); n != nil { ... } else { break }
\* A closing tag ends the container whatever its name.
parseCloseNodeAnyName(p3, parent, name) == parseResult(p3, parent)

\* A closing tag's node is appended to the container it ends.
parseCloseNodeKept(p3, parent, name) ==
    parseResult(IF name # Name(p3.n) THEN parser_errorf(p3, "unexpected closing tag")
                ELSE p3, NodeAppend(parent, p3.n))

\* parse: if c, ok := n.(*closeNode); ok { if name != c.Name() { errorf }; break }
parseCloseNode(p3, parent, name) ==
    parseResult(IF name # Name(p3.n) THEN parser_errorf(p3, "unexpected closing tag")
                ELSE p3, parent)

parseNode(p2, parent, name, close) ==
    IF p2.n # Nil
    THEN IF p2.n.kind = "close"
         THEN parseCloseNode([p2 EXCEPT !.tags = Append(@, [op |-> "close",
                                                             name |-> Name(p2.n),
                                                             open |-> p2.open])],
                             parent, name)
         ELSE parseLoop([p2 EXCEPT !.nodes = @ + 1], NodeAppend(parent, p2.n), name, close)
    ELSE parseResult(p2, parent)

\* parse: t := p.peek(), itemEOF and itemError end the loop.
parseToken(p1, parent, name, close) ==
    CASE p1.t.typ = "itemEOF" ->
            parseResult(IF ~close THEN parser_errorf(p1, "tag not closed") ELSE p1, parent)
      [] p1.t.typ = "itemError" -> parseResult(parser_errorf(p1, p1.t.val), parent)
      [] OTHER -> parseNode(textOrTag(p1), parent, name, close)

parseLoop(p, parent, name, close) == parseToken(parser_peek(p), parent, name, close)

parse(p, parent) ==
    IF IsNamed(parent) THEN parseLoop(p, parent, Name(parent), FALSE)
    ELSE parseLoop(p, parent, <<>>, TRUE)

textOrTagToken(q) ==
    CASE q.t.typ = "itemText" -> ret(q, newText(q.t.val))
      [] q.t.typ = "itemLeftDelim" -> parseTag(q)
      [] OTHER -> parser_errorf(q, "unexpected token: " \o ValStr(q.t))

textOrTag(p) == textOrTagToken(nextNonSpace(p))

\* parseTag: case itemTagType, after p.nextNonSpace(); t is the peeked tag type.
parseTagType(q1, t) ==
    CASE t.val = <<"!">> -> parseComment(q1)
      [] t.val = <<"#">> -> parseSection(q1, FALSE)
      [] t.val = <<"^">> -> parseSection(q1, TRUE)
      [] t.val = <<">">> -> parsePartial(q1)
      [] t.val = <<"<">> -> parseInherit(q1)
      [] t.val = <<"$">> -> parseDefine(q1)
      [] t.val = <<"/">> -> parseClose(q1)
      [] OTHER -> parser_errorf(q1, "unexpected token: " \o ValStr(t))

parseTagToken(q) ==
    CASE q.t.typ = "itemRightDelim" ->
            parser_errorf(nextNonSpace(q), "empty tags are not allowed")
      [] q.t.typ \in {"itemIdentifier", "itemString", "itemNumber"} -> parseVariable(q)
      [] q.t.typ = "itemTagType" -> parseTagType(nextNonSpace(q), q.t)
      [] OTHER -> parser_errorf(q, "unexpected token: " \o ValStr(q.t))

parseTag(p) == parseTagToken(peekNonSpace(p))

\* The container is returned whether its parse call failed or not.
parseBodyEndAlways(r) == ret([r.p EXCEPT !.open = SubSeq(@, 1, Len(@) - 1)], r.parent)

\* if !p.parse(node) { return nil }; return node
parseBodyEnd(r) ==
    IF ~r.ok THEN ret(r.p, Nil)
    ELSE ret([r.p EXCEPT !.open = SubSeq(@, 1, Len(@) - 1)], r.parent)

parseBody(p, node) ==
    parseBodyEnd(parse([p EXCEPT !.open = Append(@, Name(node)),
                                 !.tags = Append(@, [op |-> "open", name |-> Name(node),
                                                     open |-> p.open])],
                       node))

parseSectionEnd(q1, inverted) ==
    IF q1.t.typ # "itemRightDelim"
    THEN parser_errorf(q1, "unexpected token: " \o ValStr(q1.t))
    ELSE parseBody(q1, newSection(q1.head, q1.tl, inverted))

\* A head that is no identifier ends the tag without an error being recorded.
parseSectionHeadSilent(q, inverted) ==
    IF q.head.kind # "identifier" THEN ret(q, Nil)
    ELSE parseSectionEnd(nextNonSpace(q), inverted)

parseSectionHead(q, inverted) ==
    IF q.head.kind # "identifier"
    THEN parser_errorf(q, "expression in section must start with identifier")
    ELSE parseSectionEnd(nextNonSpace(q), inverted)

parseSection(p, inverted) == parseSectionHead(parseExpression(p), inverted)

parseDefineEnd(q1) ==
    IF q1.t.typ # "itemRightDelim"
    THEN parser_errorf(q1, "expected a delimiter, but got: " \o ValStr(q1.t))
    ELSE parseBody(q1, newDefine(q1.nm))

parseDefineName(q) == IF q.nm = <<>> THEN ret(q, Nil) ELSE parseDefineEnd(nextNonSpace(q))

parseDefine(p) == parseDefineName(parseName(p))

parseInheritEnd(q1) ==
    IF q1.t.typ # "itemRightDelim"
    THEN parser_errorf(q1, "expected a delimiter, but got: " \o ValStr(q1.t))
    ELSE parseBody(q1, newInherit(q1.nm))

parseInheritName(q) == IF q.nm = <<>> THEN ret(q, Nil) ELSE parseInheritEnd(nextNonSpace(q))

parseInherit(p) == parseInheritName(parseName(p))

newParser(name, items) ==
    [name |-> name, items |-> items, k |-> 0,
     token |-> <<zeroItem, zeroItem, zeroItem>>, peekCount |-> 0,
     failed |-> FALSE, hung |-> FALSE, nodes |-> 0, ev |-> <<>>,
     t |-> zeroItem, n |-> Nil, head |-> Nil, tl |-> <<>>, nm |-> <<>>, s |-> <<>>,
     v |-> <<>>, open |-> <<>>, tags |-> <<>>]

\* Parse: return nil, p.err when parse fails, root, nil otherwise.
ParseEnd(r) == [r.p EXCEPT !.ev = Append(@, ReturnEv(r.p, IF ~r.ok THEN Nil ELSE r.parent))]

\* The parser's side of Parse, given the items the lexer sends: its steps, ending with
\* the return of (root, nil) or of (nil, p.err).
ParseRun(name, items) == ParseEnd(parse(newParser(name, items), newList))

(***************************************************************************)
(* The renderer's registry                                                 *)
(***************************************************************************)

\* NodeMap.Get: the node and whether it was found.
Get(nodes, name) ==
    IF name \in DOMAIN nodes THEN [node |-> nodes[name], ok |-> TRUE]
    ELSE [node |-> Nil, ok |-> FALSE]

\* NodeMap.Set
Set(nodes, name, node) ==
    IF name \in DOMAIN nodes THEN [nodes EXCEPT ![name] = node]
    ELSE nodes @@ (name :> node)

\* Children of listNode, sectionNode and defineNode.
Children(n) == n.children

(***************************************************************************)
(* Inputs                                                                  *)
(***************************************************************************)

MaxSegs == 3

MaxDepth == 5

\* Every concatenation of at most n segments of V.
RECURSIVE Concats(_, _)
Concats(V, n) ==
    IF n = 0 THEN {<<>>}
    ELSE LET S == Concats(V, n - 1) IN S \cup {s \o v : s \in S, v \in V}

tag(body) == leftDelim \o body \o rightDelim

\* A template with a block, and one that inherits from it and overrides the block.
ParentName == <<"p", "a", "r", "e", "n", "t">>

Greeting == <<"g", "r", "e", "e", "t", "i", "n", "g">>

ParentSource ==
    tag(<<"$">> \o Greeting) \o <<"h", "e", "l", "l", "o">> \o tag(<<"/">> \o Greeting)

ChildSource ==
    tag(<<"<">> \o ParentName) \o tag(<<"$">> \o Greeting) \o <<"h", "i">>
        \o tag(<<"/">> \o Greeting) \o tag(<<"/">> \o ParentName)

\* A template that includes the template t, one that includes it, one that includes
\* itself, and one that includes the parent template.
IncluderName == <<"q">>

IncluderSource == tag(<<">", "t">>)

MutualSource == tag(<<">">> \o IncluderName)

SelfSource == <<"a">> \o tag(<<">", "t">>)

ChainSource == <<"b">> \o tag(<<">">> \o ParentName) \o <<"c">>

\* "text-and-tag" of lexPosTests.
TextAndTag ==
    <<"0", "1", "2", "3">> \o tag(<<"h", "e", "l", "l", "o">>) \o <<"x", "y", "z">>

\* The inputs of parse_test.go and of the lexer's tests, and further cases.
Corpus ==
    { <<>>,
      TextAndTag,
      MutualSource,
      ChainSource,
      ParentSource,
      ChildSource,
      tag(<<"#", "a">>) \o <<"x">> \o tag(<<"/", "a">>),
      tag(<<"^", "a">>) \o <<"x">> \o tag(<<"/", "a">>),
      tag(<<"!", "a">> \o leftDelim \o <<"b">>),
      tag(<<"!">>) \o rightDelim,
      <<" ", "\t", "\n">>,
      tag(<<"t", "e", "s", "t", " ", "1", " ", "\"", "t", "w", "o", "\"", " ", "3", ".", "1", "4">>),
      tag(<<"#", "t">>) \o tag(<<"/", "t">>),
      tag(<<"^", "t">>) \o tag(<<"/", "t">>),
      tag(<<"<", "t">>) \o tag(<<"/", "t">>),
      tag(<<"$", "t">>) \o tag(<<"/", "t">>),
      tag(<<"!", " ", "c">>),
      tag(<<">", "p">>),
      tag(<<"^", "3", ".", "1", "4">>) \o tag(<<"/", "3", ".", "1", "4">>),
      tag(<<"#", "t">>),
      tag(<<"/", "t">>),
      tag(<<>>),
      leftDelim \o <<"%", "t">> \o rightDelim,
      leftDelim \o <<"u">>,
      leftDelim \o <<"!", " ", "c">>,
      tag(<<"v", ".", "f">>),
      <<"0", "1">> \o tag(<<" ", "h", " ">>) \o <<"x", "y">>,
      tag(<<"1", " ", "0", "x", "1", "4", " ", "-", "7", ".", "2", "i", " ", "1", "+", "2", "i">>),
      <<"x", "\n">> \o tag(<<"#", "a">>) \o <<"\n", "y">> \o tag(<<"/", "b">>),
      <<"\n", "\n", "x">> \o tag(<<">", "p", " ", "q">>) \o <<"z">>,
      tag(<<"<", "t">>) \o <<"x">> \o tag(<<"$", "b">>) \o <<"y">> \o tag(<<"/", "b">>)
          \o tag(<<"/", "t">>),
      SelfSource,
      leftDelim \o <<"a", ".">>,
      leftDelim \o <<"1">>,
      leftDelim \o <<"\"", "s">>,
      leftDelim \o <<"\"", "\n">>,
      leftDelim \o <<">", "a", " ", "b", "\n">>,
      leftDelim \o <<"#", "1", "\n">>,
      <<" ">> \o tag(<<"\t", "a", " ", "\t">>) \o <<"\t", " ">> \o tag(<<">", "p", " ">>),
      leftDelim \o <<"!", "a", "\n", "b">> \o rightDelim,
      leftDelim \o <<">", "a", "\r">>,
      tag(<<">", "p">>) \o <<"x">>,
      <<"y">> \o tag(<<">", "q">>) \o <<"x">> \o tag(<<">", "p">>),
      tag(<<"#", "a", ".", "b", " ", "c">>) \o tag(<<"^", "d">>) \o tag(<<"/", "d">>)
          \o tag(<<"/", "a", ".", "b">>) }

\* The pieces the inputs are put together from: bytes, whole tags, and the tokens of
\* an expression.
Vocab ==
    { leftDelim, rightDelim, <<"#">>, <<">">>, <<"!">>, <<"a">>, <<" ">>, <<"\n">> }

Tags ==
    { tag(<<"#", "a">>), tag(<<"$", "a">>), tag(<<"<", "b">>), tag(<<"/", "a">>),
      tag(<<"/", "b">>), <<"x", "\n">> }

ExprVocab == { <<"a">>, <<".">>, <<" ">>, <<"1">>, <<"\"", "s", "\"">> }

\* A variable tag, and a section with its closing tag, around each expression.
Exprs ==
    { tag(body) : body \in Concats(ExprVocab, MaxSegs) }
        \cup { tag(<<"#">> \o body) \o tag(<<"/", "a">>) : body \in Concats(ExprVocab, MaxSegs) }

Inputs == Corpus \cup Concats(Vocab, MaxSegs) \cup Concats(Tags, MaxSegs) \cup Exprs

\* The name Parse is called with, and the names Execute is called with.
ParseName == <<"t">>

ExecuteNames == {ParseName, <<"p">>, ParentName}

\* The data Execute is called with: what the name a stands for, a sequence of no or of
\* two elements.
Contexts == { (<<"a">> :> <<>>), (<<"a">> :> <<"u", "v">>) }

(***************************************************************************)
(* The state                                                               *)
(***************************************************************************)

VARIABLES
    input,      \* the text given to Parse
    lexer,      \* the lexer goroutine: its steps (ev), how many it has done (at),
                \*   l.pos and l.lastPos
    parser,     \* the parser: its steps (ev), how many it has done (at), p.token[0],
                \*   p.err, the items received and the nodes appended so far, the open
                \*   containers and the tags met, and every assignment to p.err (errs)
    result,     \* what Parse returned: [root, err]
    nodes,      \* NodeMap.m of the Template
    exec,       \* Execute: its name and data arguments, its stack of execute calls, the
                \*   lookups that missed, its return
    wr,         \* the bytes written to the writer
    phase,      \* where the caller is
    round,      \* 1: the first Parse and Execute; 2: the same on the written text
    firstIn,    \* the text given to the first Parse
    firstOut,   \* the bytes the first Execute wrote
    store,      \* a NodeMap shared by goroutines: its mutex, its map, the latest
                \*   completed Set of each name, and each goroutine's call
    file,       \* a file name, and what stripExt returned for it
    container   \* a container node, the nodes appended to it, and what the calls of
                \*   Children() since the last Append returned

vars ==
    <<input, lexer, parser, result, nodes, exec, wr, phase, round, firstIn, firstOut,
      store, file, container>>

\* The variables of Parse and Execute.
templateVars ==
    <<input, lexer, parser, result, nodes, exec, wr, phase, round, firstIn, firstOut>>

NoError == "<nil>"

LastEv(p) == p.ev[Len(p.ev)]

NoResult == [root |-> Nil, err |-> NoError, returned |-> FALSE]

NoExec ==
    [name |-> <<>>, data |-> <<>>, stack |-> <<>>, err |-> NoError, state |-> "idle",
     misses |-> <<>>]

\* fmt.Errorf("template not available: %s", name)
notAvailable(name) == "template not available: " \o Str(name)

\* t.nodes.Get(name) has missed in the Execute e: the miss is noted with the number of
\* bytes written so far and the number of active execute calls.
Missed(e, name) ==
    [e EXCEPT !.misses = Append(@, [name |-> name, written |-> Len(wr),
                                    depth |-> Len(e.stack)])]

\* The lexer goroutine before its first step.
lexerProcess(l) == [ev |-> l.ev, calls |-> l.calls, at |-> 0, pos |-> 0, lastPos |-> 0]

\* The parser before its first step.
parserProcess(p) ==
    [ev |-> p.ev, at |-> 0, token0 |-> zeroItem, err |-> NoError,
     received |-> 0, appended |-> 0, open |-> <<>>, tags |-> <<>>, errs |-> <<>>]

StartedRun(l) ==
    [lexer |-> lexerProcess(l), parser |-> parserProcess(ParseRun(ParseName, Items(l.ev)))]

\* Parse(name, "", "", text) is called: lex starts the lexer goroutine.
Started(text) == StartedRun(run(lex(ParseName, text, <<>>, <<>>)))

\* The goroutines that call Get and Set of one NodeMap, the names they use and the
\* nodes they store.
Goroutines == {"g1", "g2"}

StoreNames == {<<"a">>, <<"b">>}

StoreNodes == {newText(<<"x">>), newText(<<"y">>)}

\* The calls each goroutine makes.
MaxCalls == 2

Unlocked == "unlocked"

\* A goroutine that is in no call.
idleCall ==
    [op |-> "none", name |-> <<>>, node |-> Nil, pc |-> "idle", ret |-> Get(<<>>, <<>>),
     latest |-> Get(<<>>, <<>>), calls |-> 0]

\* &NodeMap{m: make(map[string]Node)}, unlocked, with no call made.
NoCalls ==
    [mu |-> Unlocked, m |-> <<>>, completed |-> <<>>, g |-> [g \in Goroutines |-> idleCall]]

NoFile == [name |-> <<>>, stripped |-> <<>>, done |-> FALSE]

\* A container nothing was appended to.
Holding(n) == [node |-> n, appended |-> <<>>, got |-> <<>>]

NoContainer == Holding(newList)

\* n, err := Parse(fn, options.LeftDelim, options.RightDelim, string(b)) of ParseFiles,
\* for a file that parses.
ParsedFile(fn, text) == LastEv(ParseRun(fn, Items(run(lex(fn, text, <<>>, <<>>)).ev))).root

\* The NodeMap ParseFiles(nil, basedir, "parent", "q") makes of the parent template's
\* file and of a file that includes the template t.
ParseFiles ==
    (ParentName :> ParsedFile(ParentName, ParentSource))
        @@ (IncluderName :> ParsedFile(IncluderName, IncluderSource))

TemplateState(text, s) ==
    /\ input = text
    /\ lexer = s.lexer
    /\ parser = s.parser
    /\ result = NoResult
    /\ nodes = ParseFiles
    /\ exec = NoExec
    /\ wr = <<>>
    /\ phase = "parsing"
    /\ round = 1
    /\ firstIn = text
    /\ firstOut = <<>>

InitState(text, s) ==
    /\ TemplateState(text, s)
    /\ store = NoCalls
    /\ file = NoFile
    /\ container = NoContainer

InitOver(S) == \E text \in S : InitState(text, Started(text))

Init == InitOver(Inputs)

\* The parser has done its next step e.
Stepped(e) ==
    [parser EXCEPT !.at = @ + 1, !.appended = e.nodes, !.open = e.open,
                   !.tags = e.tags]

\* p.err = errors.New(text), where msg is the message errorf chose.
Recorded(p, text, msg) ==
    [p EXCEPT !.err = text,
              !.errs = Append(@, [err |-> text, msg |-> msg, token0 |-> p.token0,
                                  received |-> p.received, appended |-> p.appended])]

LexerPending == lexer.at < Len(lexer.ev)

LexerNext == lexer.ev[lexer.at + 1]

ParserPending == parser.at < Len(parser.ev)

ParserNext == parser.ev[parser.at + 1]

\* lineNumber reports which line we're on, based on the position of the previous item
\* returned by nextItem.
lineNumber(text, lastPos) == 1 + Count(Slice(text, 0, lastPos), "\n")

\* The column errorf computes from l.pos and l.lastPos.
columnAt(pos, i) == IF i > -1 THEN pos - i - 1 ELSE pos

column(text, pos, lastPos) == columnAt(pos, LastIndex(Slice(text, 0, lastPos), <<"\n">>))

\* errors.New(fmt.Sprintf("%s:%d:%d: %s", p.name, p.lex.lineNumber(), pos, msg))
errorText(name, line, pos, msg) ==
    Str(name) \o ":" \o Itoa(line) \o ":" \o Itoa(pos) \o ": " \o msg

(***************************************************************************)
(* The actions                                                             *)
(***************************************************************************)

\* The lexer goroutine moves l.pos (next, backup, the delimiters, the comment body).
LexerStep ==
    /\ LexerPending
    /\ LexerNext.k = "pos"
    /\ lexer' = [lexer EXCEPT !.at = @ + 1, !.pos = LexerNext.v]
    /\ UNCHANGED <<input, parser, result, nodes, exec, wr, phase, round, firstIn, firstOut,
                 store, file, container>>

\* l.items <- item goes through without a receiver: the lexer goroutine moves on and
\* the item is not taken.
NextItemUnreceived ==
    /\ phase = "parsing"
    /\ LexerPending /\ LexerNext.k = "emit"
    /\ ParserPending /\ ParserNext.k = "recv"
    /\ lexer' = [lexer EXCEPT !.at = @ + 1]
    /\ UNCHANGED <<input, parser, result, nodes, exec, wr, phase, round, firstIn, firstOut,
                   store, file, container>>

\* l.items <- item in the lexer meets <-l.items of nextItem in the parser: the item
\* is handed over, nextItem sets l.lastPos and the parser puts it in p.token[0].
NextItem ==
    /\ phase = "parsing"
    /\ LexerPending /\ LexerNext.k = "emit"
    /\ ParserPending /\ ParserNext.k = "recv"
    /\ lexer' = [lexer EXCEPT !.at = @ + 1, !.lastPos = LexerNext.item.pos]
    /\ parser' = [Stepped(ParserNext) EXCEPT !.token0 = LexerNext.item,
                                             !.received = @ + 1]
    /\ UNCHANGED <<input, result, nodes, exec, wr, phase, round, firstIn, firstOut,
                 store, file, container>>

\* The parser calls errorf: it reads l.pos, which the lexer goroutine may be writing.
ParserErrorf ==
    /\ phase = "parsing"
    /\ ParserPending /\ ParserNext.k = "errorf"
    /\ parser' = Recorded(Stepped(ParserNext),
                           errorText(ParseName, lineNumber(input, lexer.lastPos),
                                     column(input, lexer.pos, lexer.lastPos),
                                     ParserNext.msg),
                           ParserNext.msg)
    /\ UNCHANGED <<input, lexer, result, nodes, exec, wr, phase, round, firstIn, firstOut,
                 store, file, container>>

\* Parse returns (root, nil), or (nil, p.err) when parse failed.
ParseReturn ==
    /\ phase = "parsing"
    /\ ParserPending /\ ParserNext.k = "return"
    /\ parser' = Stepped(ParserNext)
    /\ result' = IF ParserNext.failed
                 THEN [root |-> Nil, err |-> parser.err, returned |-> TRUE]
                 ELSE [root |-> ParserNext.root, err |-> NoError, returned |-> TRUE]
    /\ phase' = "parsed"
    /\ UNCHANGED <<input, lexer, nodes, exec, wr, round, firstIn, firstOut,
                 store, file, container>>

\* The caller of Parse (ParseFiles) gives up on an error and stores the root otherwise.
Register ==
    /\ phase = "parsed"
    /\ IF result.err # NoError
       THEN /\ phase' = "failed"
            /\ UNCHANGED nodes
       ELSE /\ phase' = "ready"
            /\ nodes' = Set(nodes, ParseName, result.root)
    /\ UNCHANGED <<input, lexer, parser, result, exec, wr, round, firstIn, firstOut,
                 store, file, container>>

\* Execute(wr, name, data) looks the template up and calls execute on its root.
Execute ==
    /\ phase = "ready"
    /\ \E name \in ExecuteNames, data \in Contexts :
          LET got == Get(nodes, name)
          IN  IF ~got.ok
              THEN /\ exec' = Missed([NoExec EXCEPT !.name = name, !.data = data,
                                                      !.state = "returned",
                                                      !.err = notAvailable(name)], name)
                   /\ phase' = "done"
              ELSE /\ exec' = [NoExec EXCEPT !.name = name, !.data = data,
                                             !.state = "running",
                                             !.stack = <<[node |-> got.node, i |-> 0]>>]
                   /\ phase' = "executing"
    /\ UNCHANGED <<input, lexer, parser, result, nodes, wr, round, firstIn, firstOut,
                 store, file, container>>

\* The call of execute on top of the stack of e returns err to its caller: Execute
\* returns it, execute drops it.
Return(e, err) ==
    IF Len(e.stack) = 1
    THEN /\ exec' = [e EXCEPT !.stack = <<>>, !.err = err, !.state = "returned"]
         /\ phase' = "done"
    ELSE /\ exec' = [e EXCEPT !.stack = SubSeq(@, 1, Len(@) - 1)]
         /\ UNCHANGED phase

\* execute calls itself on node n unless a call on n is active.
CallGuarded(n) ==
    IF \E i \in DOMAIN exec.stack : exec.stack[i].node = n
    THEN Return(exec, NoError)
    ELSE /\ exec' = [exec EXCEPT !.stack = Append([@ EXCEPT ![Len(@)].i = @ + 1],
                                                  [node |-> n, i |-> 0])]
         /\ UNCHANGED phase

\* execute calls itself on node n.
Call(n) ==
    IF Len(exec.stack) >= MaxDepth
    THEN /\ exec' = [exec EXCEPT !.state = "overflow"]
         /\ phase' = "done"
    ELSE /\ exec' = [exec EXCEPT !.stack = Append([@ EXCEPT ![Len(@)].i = @ + 1],
                                                  [node |-> n, i |-> 0])]
         /\ UNCHANGED phase

\* One step of the execute call on top of the stack.
ExecuteStep ==
    /\ phase = "executing"
    /\ LET top == exec.stack[Len(exec.stack)]
           n == top.node
       IN  CASE n.kind = "list" ->
                    /\ IF top.i < Len(Children(n)) THEN Call(Children(n)[top.i + 1])
                       ELSE Return(exec, NoError)
                    /\ UNCHANGED wr
             [] n.kind = "text" ->
                    /\ wr' = wr \o n.Text
                    /\ Return(exec, NoError)
             [] n.kind = "partial" ->
                    /\ IF top.i > 0 THEN Return(exec, NoError)
                       ELSE LET got == Get(nodes, Name(n))
                            IN  IF ~got.ok
                                THEN Return(Missed(exec, Name(n)), notAvailable(Name(n)))
                                ELSE Call(got.node)
                    /\ UNCHANGED wr
             [] OTHER ->
                    /\ exec' = [exec EXCEPT !.state = "panic"]
                    /\ phase' = "done"
                    /\ UNCHANGED wr
    /\ UNCHANGED <<input, lexer, parser, result, nodes, round, firstIn, firstOut,
                 store, file, container>>

ReparseState(s) ==
    /\ input' = wr
    /\ lexer' = s.lexer
    /\ parser' = s.parser
    /\ result' = NoResult
    /\ nodes' = ParseFiles
    /\ exec' = NoExec
    /\ wr' = <<>>
    /\ phase' = "parsing"
    /\ round' = 2
    /\ firstOut' = wr
    /\ UNCHANGED <<firstIn, store, file, container>>

\* The text the first Execute wrote is parsed and rendered again.
Reparse ==
    /\ phase = "done"
    /\ round = 1
    /\ exec.state = "returned" /\ exec.err = NoError
    /\ ReparseState(Started(wr))

Next ==
    \/ LexerStep
    \/ NextItem
    \/ ParserErrorf
    \/ ParseReturn
    \/ Register
    \/ Execute
    \/ ExecuteStep
    \/ Reparse

Spec == Init /\ [][Next]_vars

\* Templates that include others, text, and an empty tag, rendered by an Execute that
\* goes on as long as it has a step to make.
RenderInputs ==
    { SelfSource, MutualSource, ChainSource, <<"x", "y">>, tag(<<>>),
      tag(<<">", "p">>) \o <<"x">> }

SpecRender == InitOver(RenderInputs) /\ [][Next]_vars /\ WF_vars(ExecuteStep)

(***************************************************************************)
(* NodeMap under concurrent callers                                        *)
(***************************************************************************)

\* The goroutines between the start and the end of their write of n.m, and of their
\* read of it.
Writing(st) == {g \in Goroutines : st.g[g].op = "Set" /\ st.g[g].pc = "access"}

Reading(st) == {g \in Goroutines : st.g[g].op = "Get" /\ st.g[g].pc = "access"}

\* What a read of a map yields: a node and true, or nil and false.
Lookups == {[node |-> Nil, ok |-> FALSE]} \cup {[node |-> n, ok |-> TRUE] : n \in StoreNodes}

\* Goroutine g calls n.Get(name).
CallGet(g) ==
    /\ store.g[g].pc = "idle"
    /\ store.g[g].calls < MaxCalls
    /\ \E name \in StoreNames :
          store' = [store EXCEPT !.g[g] = [@ EXCEPT !.op = "Get", !.name = name,
                                                    !.node = Nil, !.pc = "Lock"]]

\* Goroutine g calls n.Set(name, p).
CallSet(g) ==
    /\ store.g[g].pc = "idle"
    /\ store.g[g].calls < MaxCalls
    /\ \E name \in StoreNames, p \in StoreNodes :
          store' = [store EXCEPT !.g[g] = [@ EXCEPT !.op = "Set", !.name = name,
                                                    !.node = p, !.pc = "Lock"]]

\* n.Lock() that does not wait.
LockWithoutWaiting(st, g) ==
    /\ st.g[g].pc = "Lock"
    /\ store' = [st EXCEPT !.g[g].pc = "locked"]

\* n.Lock(): g waits until the mutex is free and takes it.
Lock(st, g) ==
    /\ st.g[g].pc = "Lock"
    /\ st.mu = Unlocked
    /\ store' = [st EXCEPT !.mu = g, !.g[g].pc = "locked"]

\* g starts to read n.m[name] (Get) or to write it (Set).
Access(g) ==
    /\ store.g[g].pc = "locked"
    /\ store' = [store EXCEPT !.g[g].pc = "access"]

\* p, ok := n.m[name] is done. A read of a map another goroutine is writing is a data
\* race: it may yield anything. The latest completed Set of the name is noted.
GetDone(g) ==
    /\ store.g[g].op = "Get"
    /\ store.g[g].pc = "access"
    /\ \E r \in Lookups :
          /\ Writing(store) = {} => r = Get(store.m, store.g[g].name)
          /\ store' = [store EXCEPT !.g[g] = [@ EXCEPT
                                       !.ret = r,
                                       !.latest = Get(store.completed, store.g[g].name),
                                       !.pc = "Unlock"]]

\* n.m[name] = p is done. A write of a map another goroutine is reading or writing is
\* a data race: the entry may be lost.
SetDone(g) ==
    /\ store.g[g].op = "Set"
    /\ store.g[g].pc = "access"
    /\ \E m \in {store.m, Set(store.m, store.g[g].name, store.g[g].node)} :
          /\ (Writing(store) \cup Reading(store)) = {g}
                 => m = Set(store.m, store.g[g].name, store.g[g].node)
          /\ store' = [store EXCEPT !.m = m, !.g[g].pc = "Unlock"]

\* The mutex after goroutine g has called n.Unlock().
unlock(mu, g) == IF mu = g THEN Unlocked ELSE mu

\* n.Unlock(), and the call returns: a Set is completed.
Unlock(g) ==
    /\ store.g[g].pc = "Unlock"
    /\ store' = [store EXCEPT
                    !.mu = unlock(@, g),
                    !.completed = IF store.g[g].op = "Set"
                                  THEN Set(@, store.g[g].name, store.g[g].node)
                                  ELSE @,
                    !.g[g] = [@ EXCEPT !.pc = "idle", !.calls = @ + 1]]

NodeMapInit == InitState(<<>>, Started(<<>>))

NodeMapNext ==
    /\ \E g \in Goroutines :
          \/ CallGet(g)
          \/ CallSet(g)
          \/ Lock(store, g)
          \/ Access(g)
          \/ GetDone(g)
          \/ SetDone(g)
          \/ Unlock(g)
    /\ UNCHANGED <<templateVars, file, container>>

SpecNodeMap == NodeMapInit /\ [][NodeMapNext]_vars

(***************************************************************************)
(* stripExt                                                                *)
(***************************************************************************)

\* a := 0; if r := strings.LastIndex(filename, "/"); r > -1 { a = r + 1 }
stripExtStart(r) == IF r > -1 THEN r + 1 ELSE 0

\* The offset of the last '.' of s, or -1.
lastExtension(s) == LastIndex(s, <<".">>)

\* strings.IndexRune(filename[a:], '.')
firstExtension(s) == Index(s, <<".">>)

\* if b > -1 { return filename[:a+b] } else { return filename }
stripExtAt(filename, a, b) == IF b > -1 THEN Slice(filename, 0, a + b) ELSE filename

stripExtFrom(filename, a) == stripExtAt(filename, a, firstExtension(Drop(filename, a)))

stripExt(filename) == stripExtFrom(filename, stripExtStart(LastIndex(filename, <<"/">>)))

\* The longest file name.
MaxName == 4

\* The file names of TestStripExt.
StripExtTests ==
    { <<"a", "b", "c", ".", "e", "x", "t">>,
      <<"a", "b", "c", ".", "t", "a", "r", ".", "g", "z">>,
      <<"a", ".", "b", ".", "c", "/", "a", "b", "c", ".", "t", "a", "r", ".", "g", "z">>,
      <<"a", ".", "b", ".", "c", "/", ".">>,
      <<"a", ".", "b", ".", "c", "/">> }

FileNames == StripExtTests \cup Concats({<<"a">>, <<".">>, <<"/">>}, MaxName)

\* ParseFiles is called with the name of a file.
StripExtInit ==
    /\ TemplateState(<<>>, Started(<<>>))
    /\ store = NoCalls
    /\ container = NoContainer
    /\ \E fn \in FileNames : file = [NoFile EXCEPT !.name = fn]

\* m[stripExt(fn)] = n of ParseFiles: stripExt is called with the file name.
StripExt ==
    /\ ~file.done
    /\ file' = [file EXCEPT !.stripped = stripExt(file.name), !.done = TRUE]
    /\ UNCHANGED <<templateVars, store, container>>

StripExtNext == StripExt

SpecStripExt == StripExtInit /\ [][StripExtNext]_vars

(***************************************************************************)
(* Container nodes                                                         *)
(***************************************************************************)

\* The most nodes appended to a container.
MaxAppends == 3

\* An empty container of each kind, and the nodes appended to them.
Containers ==
    { newList, newSection(newIdentifier(<<<<"a">>>>), <<>>, FALSE), newDefine(<<"a">>),
      newInherit(<<"a">>) }

ChildNodes == {newText(<<"x">>), newPartial(<<"p">>), newDefine(<<"a">>), newDefine(<<"b">>)}

\* What a call of n.Children() may return.
ChildrenOf(n) ==
    IF n.kind = "inherit" THEN {inheritChildren(n, o) : o \in RangeOrders(DOMAIN n.tmpls)}
    ELSE {Children(n)}

ContainerInit ==
    /\ TemplateState(<<>>, Started(<<>>))
    /\ store = NoCalls
    /\ file = NoFile
    /\ \E n \in Containers : container = Holding(n)

\* parent.Append(n)
AppendNode ==
    /\ Len(container.appended) < MaxAppends
    /\ \E n \in ChildNodes :
          container' = [node |-> NodeAppend(container.node, n),
                        appended |-> Append(container.appended, n), got |-> <<>>]
    /\ UNCHANGED <<templateVars, store, file>>

\* parent.Children() is called, up to twice on an unchanged node.
CallChildren ==
    /\ Len(container.got) < 2
    /\ \E children \in ChildrenOf(container.node) :
          container' = [container EXCEPT !.got = Append(@, children)]
    /\ UNCHANGED <<templateVars, store, file>>

ContainerNext == AppendNode \/ CallChildren

SpecContainer == ContainerInit /\ [][ContainerNext]_vars

(***************************************************************************)
(* Properties                                                              *)
(***************************************************************************)

\* Parse has returned a root and no error.
Succeeds == result.returned /\ result.root # Nil /\ result.err = NoError

\* Parse has returned no root and an error whose text is name:line:column: msg.
FailsWith(msg) ==
    /\ result.returned
    /\ result.root = Nil
    /\ \E line \in 1..(Count(input, "\n") + 1), col \in 0..(Len(input) + 1) :
          result.err = errorText(ParseName, line, col, msg)

NoLeftDelim(text) == Index(text, leftDelim) = -1

\* Execute of the parsed template has returned.
Rendered == phase = "done" /\ exec.name = ParseName

\* C1: for an input without the left delimiter Parse returns a root and no error, and
\* Execute of that root writes exactly the bytes of the input and returns no error;
\* parsing and rendering the written text again reproduces the same bytes.
TextRendersIdentically ==
    /\ (phase = "parsed" /\ NoLeftDelim(firstIn)) =>
          /\ Succeeds
          /\ round = 2 => input = firstIn /\ firstOut = firstIn
    /\ (Rendered /\ NoLeftDelim(firstIn)) =>
          /\ exec.state = "returned" /\ exec.err = NoError /\ wr = input
          /\ round = 2 => wr = firstOut

\* A text of several bytes, one of them a right delimiter's, has gone round twice.
TextRenderedTwice ==
    /\ NoLeftDelim(firstIn) /\ Len(firstIn) >= 3 /\ ")" \in {firstIn[i] : i \in DOMAIN firstIn}
    /\ round = 2 /\ Rendered /\ wr = firstIn

\* The containers open after the tags of log, reckoned from the tags alone: a container
\* tag opens its container, a closing tag that names the innermost open one ends it.
OpenAfterTag(open, t) ==
    CASE t.op = "open" -> Append(open, t.name)
      [] t.op = "close" /\ open # <<>> /\ open[Len(open)] = t.name ->
            SubSeq(open, 1, Len(open) - 1)
      [] OTHER -> open

RECURSIVE OpenAfter(_)
OpenAfter(log) ==
    IF log = <<>> THEN <<>>
    ELSE OpenAfterTag(OpenAfter(SubSeq(log, 1, Len(log) - 1)), log[Len(log)])

IsClose(t) == t.op = "close"

Closes == SelectSeq(parser.tags, IsClose)

\* The closing tag c names the innermost container open when parse met it.
Matched(c) == c.open # <<>> /\ c.open[Len(c.open)] = c.name

\* The last closing tag parse met does not name the innermost open container, or was
\* met at root level.
UnexpectedClose == Closes # <<>> /\ ~Matched(Closes[Len(Closes)])

\* The end of the input was reached while a container was open.
NotClosed == parser.token0.typ = "itemEOF" /\ parser.open # <<>>

\* C2: a closing tag ends the innermost open Section, Inherit or Define if and only if
\* its name is that container's name; a closing tag with another name, or met at root
\* level, fails with "unexpected closing tag"; the end of the input with a container
\* still open fails with "tag not closed".
ClosingTagsMatch ==
    phase = "parsed" =>
          /\ parser.open = OpenAfter(parser.tags)
          /\ \A i \in 1..Len(parser.tags) :
                parser.tags[i].open = OpenAfter(SubSeq(parser.tags, 1, i - 1))
          /\ \A i \in 1..(Len(Closes) - 1) : Matched(Closes[i])
          /\ UnexpectedClose <=> FailsWith("unexpected closing tag")
          /\ NotClosed <=> FailsWith("tag not closed")
          /\ Succeeds => parser.open = <<>>

\* Two nested containers have each been ended by their own closing tag.
NestedClosed ==
    /\ Succeeds
    /\ Len(Closes) = 2
    /\ Len(Closes[1].open) = 2
    /\ Closes[1].name # Closes[2].name

\* C3: Parse stops at the first error: p.err is assigned at most once, after that no
\* token is received and no node is appended, and Parse returns no root together with
\* that error; it returns a root exactly when it returns no error.
StopsAtFirstError ==
    /\ Len(parser.errs) <= 1
    /\ parser.errs = <<>> => parser.err = NoError
    /\ parser.errs # <<>> =>
          /\ parser.err = parser.errs[1].err /\ parser.err # NoError
          /\ parser.received = parser.errs[1].received
          /\ parser.appended = parser.errs[1].appended
    /\ result.returned =>
          /\ result.err = parser.err
          /\ result.root = Nil <=> result.err # NoError

\* Parse has failed after appending nodes to the tree it then discards.
PartialTreeDiscarded ==
    /\ phase = "parsed"
    /\ parser.errs # <<>>
    /\ parser.appended >= 2
    /\ result.root = Nil

\* The offset of the most recently consumed token, and that of the start of its line.
TokenOffset == parser.token0.pos

TokenLineStart == LastIndex(Slice(input, 0, TokenOffset), <<"\n">>) + 1

\* C4: every error returned by Parse is name:line:column: message, where line is 1 plus
\* the number of newlines before the offset of the most recently consumed token and
\* column is that token's offset counted from the start of its line.
ErrorAtConsumedToken ==
    (phase = "parsed" /\ result.err # NoError) =>
        result.err = errorText(ParseName,
                               1 + Count(Slice(input, 0, TokenOffset), "\n"),
                               TokenOffset - TokenLineStart,
                               parser.errs[1].msg)

\* C5: for a single-line input that fails to parse, the text of the error is exactly
\* name:1: message, the line number directly followed by the message.
SingleLineErrorText ==
    (phase = "parsed" /\ result.err # NoError /\ Count(input, "\n") = 0) =>
        result.err = Str(ParseName) \o ":1: " \o parser.errs[1].msg

\* The parser has received an error token from the lexer.
ErrorTokenReceived == parser.received > 0 /\ parser.token0.typ = "itemError"

\* The messages the parser words itself, about the token tok.
ParserMessages(tok) ==
    { "tag not closed", "unexpected closing tag", "empty tags are not allowed",
      "expression in section must start with identifier",
      "unexpected token: " \o ValStr(tok), "expected a delimiter, but got: " \o ValStr(tok) }

\* C6: when the parser has received an error token from the lexer, the message of the
\* returned error is exactly that token's text; the parser's own message is used only
\* when no error token was received.
LexerErrorVerbatim ==
    phase = "parsed" =>
        /\ ErrorTokenReceived =>
              /\ FailsWith(parser.token0.val)
              /\ parser.errs[1].msg = parser.token0.val
        /\ (result.err # NoError /\ ~ErrorTokenReceived) =>
              /\ parser.errs[1].msg \in ParserMessages(parser.token0)
              /\ FailsWith(parser.errs[1].msg)

\* An error token was received inside a tag and Parse has failed with its text.
LexerErrorReturned ==
    /\ phase = "parsed"
    /\ ErrorTokenReceived
    /\ parser.received >= 3
    /\ parser.token0.val \notin {"unclosed tag", "unclosed comment"}
    /\ FailsWith(parser.token0.val)

\* The operands written in a tag, reckoned from the lexer's items alone, from item i on:
\* an Identifier after a Dot goes on with the path before it, any other Identifier,
\* String or Number is an operand of its own, spaces separate, and the first other
\* token ends the expression.
ExtendPath(ops, val) ==
    [ops EXCEPT ![Len(ops)] = newIdentifier(Append(ops[Len(ops)].path, val))]

RECURSIVE OperandsFrom(_, _, _)
OperandsFrom(items, i, ops) ==
    IF i > Len(items) THEN ops
    ELSE CASE items[i].typ \in {"itemSpace", "itemDot"} -> OperandsFrom(items, i + 1, ops)
           [] items[i].typ = "itemIdentifier" ->
                 OperandsFrom(items, i + 1,
                              IF items[i - 1].typ = "itemDot"
                              THEN ExtendPath(ops, items[i].val)
                              ELSE Append(ops, newIdentifier(<<items[i].val>>)))
           [] items[i].typ = "itemString" ->
                 OperandsFrom(items, i + 1, Append(ops, newString(items[i].val)))
           [] items[i].typ = "itemNumber" ->
                 OperandsFrom(items, i + 1, Append(ops, newNumber(items[i].val)))
           [] OTHER -> ops

\* The operands of the tag the input begins with.
FirstTagOperands(items) ==
    OperandsFrom(items, IF items[2].typ = "itemTagType" THEN 3 ELSE 2, <<>>)

\* The input begins with a tag and Parse has returned a tree whose first node is the
\* Variable or Section of that tag.
FirstTagParsed ==
    /\ phase = "parsed" /\ Succeeds
    /\ HasPrefix(input, leftDelim)
    /\ result.root.children # <<>>
    /\ result.root.children[1].kind \in {"variable", "section"}

HeadAndTail(node, ops) ==
    /\ ops # <<>>
    /\ node.Head = ops[1]
    /\ node.Tail = IF ops[1].kind = "identifier" THEN SubSeq(ops, 2, Len(ops)) ELSE <<>>
    /\ ops[1].kind # "identifier" => Len(ops) = 1

TestExpression ==
    tag(<<"t", "e", "s", "t", " ", "1", " ", "\"", "t", "w", "o", "\"", " ", "3", ".", "1", "4">>)

\* C7: in a variable or section tag the head is the first Identifier (a dotted path),
\* String or Number; an Identifier head takes every following Identifier, String or
\* Number up to the first other token as its tail, in source order; a String or Number
\* head takes no tail; ((test 1 "two" 3.14)) is one Variable with head test and tail
\* [Number 1, String two, Number 3.14].
ExpressionHeadAndTail ==
    /\ FirstTagParsed =>
          HeadAndTail(result.root.children[1], FirstTagOperands(Items(lexer.ev)))
    /\ (phase = "parsed" /\ input = TestExpression) =>
          result.root.children =
              << newVariable(newIdentifier(<< <<"t", "e", "s", "t">> >>),
                             << newNumber(<<"1">>), newString(<<"t", "w", "o">>),
                                newNumber(<<"3", ".", "1", "4">>) >>) >>

\* A Section whose head is a dotted path has taken a tail of several operands.
DottedHeadWithTail ==
    /\ FirstTagParsed
    /\ result.root.children[1].kind = "section"
    /\ Len(result.root.children[1].Head.path) = 2
    /\ Len(result.root.children[1].Tail) >= 1

\* The index of the first item from j on that is no space.
RECURSIVE FirstNonSpace(_, _)
FirstNonSpace(items, j) ==
    IF j <= Len(items) /\ items[j].typ = "itemSpace" THEN FirstNonSpace(items, j + 1) ELSE j

\* Item i opens a section tag whose expression starts with the String, Number or right
\* delimiter (no expression at all) at item j, which the parser has received.
SectionWithoutIdentifier(items, i, j) ==
    /\ items[i].typ = "itemTagType" /\ items[i].val \in {<<"#">>, <<"^">>}
    /\ j <= Len(items)
    /\ items[j].typ \in {"itemString", "itemNumber", "itemComplex", "itemRightDelim"}
    /\ parser.received >= j

RECURSIVE SectionHeadsAreIdentifiers(_)
SectionHeadsAreIdentifiers(n) ==
    CASE n.kind = "section" ->
            /\ n.Head.kind = "identifier" /\ Len(n.Head.path) >= 1
            /\ \A i \in DOMAIN n.children : SectionHeadsAreIdentifiers(n.children[i])
      [] n.kind \in {"list", "define"} ->
            \A i \in DOMAIN n.children : SectionHeadsAreIdentifiers(n.children[i])
      [] n.kind = "inherit" ->
            \A k \in DOMAIN n.tmpls : \A i \in DOMAIN n.tmpls[k] :
                SectionHeadsAreIdentifiers(n.tmpls[k][i])
      [] OTHER -> TRUE

SectionHeadChecked(items) ==
    /\ \A i \in 1..Len(items) :
          SectionWithoutIdentifier(items, i, FirstNonSpace(items, i + 1)) =>
              FailsWith("expression in section must start with identifier")
    /\ Succeeds => SectionHeadsAreIdentifiers(result.root)

\* C8: a section tag (# or ^) whose expression starts with a String or a Number, or
\* has no expression at all, makes Parse fail with "expression in section must start
\* with identifier"; every Section of a returned tree has an Identifier head with at
\* least one path segment.
SectionStartsWithIdentifier == phase = "parsed" => SectionHeadChecked(Items(lexer.ev))

\* A section tag with a String head was refused.
StringHeadRefused ==
    /\ phase = "parsed"
    /\ parser.token0.typ = "itemString"
    /\ FailsWith("expression in section must start with identifier")

\* Offset k of text is its end or holds an end-of-line character.
AtLineEnd(text, k) == k = Len(text) \/ (k < Len(text) /\ text[k + 1] \in {"\r", "\n"})

IsLeftDelim(t) == t.typ = "itemLeftDelim"

\* The index of the last left delimiter among items, 0 when there is none.
LastLeftDelim(items) ==
    IF SelectSeq(items, IsLeftDelim) = <<>> THEN 0
    ELSE CHOOSE i \in 1..Len(items) :
            /\ items[i].typ = "itemLeftDelim"
            /\ \A j \in (i + 1)..Len(items) : items[j].typ # "itemLeftDelim"

\* The tag opened by item i is still open at offset k: k is past its left delimiter and
\* no right delimiter lies between.
OpenFrom(text, items, i, k) ==
    /\ i > 0
    /\ items[i].pos + Len(leftDelim) <= k
    /\ Index(Slice(text, items[i].pos + Len(leftDelim), k), rightDelim) = -1

IsCommentTag(items, i) ==
    i < Len(items) /\ items[i + 1].typ = "itemTagType" /\ items[i + 1].val = <<"!">>

\* The lexer has ended with an error item at or before offset k.
ErrorBy(items, k) ==
    items # <<>> /\ items[Len(items)].typ = "itemError" /\ items[Len(items)].pos <= k

\* Offset k follows the opening quote of a string, not the closing quote of the String
\* item before the error.
StringOpenAt(text, items, k) ==
    /\ k > 0 /\ text[k] = "\""
    /\ ~(/\ items[Len(items) - 1].typ = "itemString"
         /\ items[Len(items) - 1].pos + Len(items[Len(items) - 1].val) = k - 1)

\* The lexer's error item is at the end of a line or of the input, in a tag that is no
\* comment, between tokens: not in a quoted string, not right after a dot.
EndBetweenTokens(text, items, e) ==
    /\ e.typ = "itemError"
    /\ AtLineEnd(text, e.pos)
    /\ OpenFrom(text, items, LastLeftDelim(items), e.pos)
    /\ ~IsCommentTag(items, LastLeftDelim(items))
    /\ items[Len(items) - 1].typ # "itemDot"
    /\ ~StringOpenAt(text, items, e.pos)

UnclosedTagReported(text, items) ==
    /\ \A k \in 0..Len(text) :
          (/\ AtLineEnd(text, k)
           /\ OpenFrom(text, items, LastLeftDelim(items), k)
           /\ ~IsCommentTag(items, LastLeftDelim(items)))
              => ErrorBy(items, k) /\ result.root = Nil /\ result.err # NoError
    /\ (items # <<>> /\ EndBetweenTokens(text, items, items[Len(items)])) =>
          /\ items[Len(items)].val = "unclosed tag"
          /\ ErrorTokenReceived => FailsWith("unclosed tag")

UnclosedTagAlways(text, items) ==
    \A k \in 0..Len(text) :
        (AtLineEnd(text, k) /\ OpenFrom(text, items, LastLeftDelim(items), k))
            => /\ ErrorBy(items, k)
               /\ items[Len(items)].val = "unclosed tag"
               /\ FailsWith("unclosed tag")

InsertAt(text, k, c) == SubSeq(text, 1, k) \o <<c>> \o SubSeq(text, k + 1, Len(text))

\* What Parse returns for text.
ParseOutcome(p) == [root |-> p.ev[Len(p.ev)].root, failed |-> p.ev[Len(p.ev)].failed]

ParseOf(text) ==
    ParseOutcome(ParseRun(ParseName, Items(run(lex(ParseName, text, <<>>, <<>>)).ev)))

\* Parse of the input has returned what o is.
SameOutcome(o) == o.failed = (result.root = Nil) /\ o.root = result.root

\* Right delimiter i ends a comment tag.
EndsComment(items, i) ==
    /\ i > 2
    /\ items[i - 1].typ = "itemString"
    /\ items[i - 2].typ = "itemTagType" /\ items[i - 2].val = <<"!">>

\* The offsets directly after the left delimiter of a tag without a tag-type character
\* and directly before the right delimiter of a tag that is no comment.
InsideDelims(items) ==
    { items[i].pos + Len(leftDelim) :
        i \in { j \in 1..Len(items) :
                  /\ items[j].typ = "itemLeftDelim"
                  /\ (j = Len(items) \/ items[j + 1].typ # "itemTagType") } }
        \cup { items[i].pos :
                 i \in { j \in 1..Len(items) :
                           items[j].typ = "itemRightDelim" /\ ~EndsComment(items, j) } }

\* The offsets directly after every left delimiter and directly before every right one.
InsideAnyDelims(items) ==
    { items[i].pos + Len(leftDelim) : i \in { j \in 1..Len(items) : items[j].typ = "itemLeftDelim" } }
        \cup { items[i].pos : i \in { j \in 1..Len(items) : items[j].typ = "itemRightDelim" } }

\* The texts of the Text nodes of a tree.
RECURSIVE TextsOf(_)
TextsOf(n) ==
    CASE n.kind = "text" -> {n.Text}
      [] n.kind \in {"list", "section", "define"} ->
            UNION { TextsOf(n.children[i]) : i \in DOMAIN n.children }
      [] n.kind = "inherit" ->
            UNION { UNION { TextsOf(n.tmpls[k][i]) : i \in DOMAIN n.tmpls[k] } :
                      k \in DOMAIN n.tmpls }
      [] OTHER -> {}

IsText(t) == t.typ = "itemText"

TextKept(text, items) ==
    /\ \A i \in 1..Len(items) :
          items[i].typ \notin {"itemError", "itemEOF"} =>
              items[i].val = Slice(text, items[i].pos, items[i].pos + Len(items[i].val))
    /\ Succeeds =>
          TextsOf(result.root) = { t.val : t \in { items[i] : i \in { j \in 1..Len(items) : IsText(items[j]) } } }

WhitespaceInsideDelims(text, items) ==
    /\ \A k \in InsideDelims(items) : \A c \in {" ", "\t"} :
          SameOutcome(ParseOf(InsertAt(text, k, c)))
    /\ TextKept(text, items)

\* C10 as amended: a space or tab directly before the right delimiter of a tag that is
\* no comment, or directly after the left delimiter of a tag without a tag-type
\* character, changes neither whether Parse succeeds nor the tree it returns; the text
\* outside tags is kept byte for byte in the Text nodes.
WhitespaceInsignificant == phase = "parsed" => WhitespaceInsideDelims(input, Items(lexer.ev))

\* A template of several tags and spaces in its text was parsed like its variants.
WhitespaceVariantsParsed ==
    /\ phase = "parsed" /\ Succeeds
    /\ Cardinality(InsideDelims(Items(lexer.ev))) >= 3
    /\ \E t \in TextsOf(result.root) : " " \in {t[i] : i \in DOMAIN t}

WhitespaceInsideAnyDelims(text, items) ==
    \A k \in InsideAnyDelims(items) : \A c \in {" ", "\t"} :
        SameOutcome(ParseOf(InsertAt(text, k, c)))

\* C10: for every tag kind, whitespace directly after the left delimiter or directly
\* before the right delimiter changes neither whether Parse succeeds nor the tree.
WhitespaceInsignificantEveryKind ==
    phase = "parsed" => WhitespaceInsideAnyDelims(input, Items(lexer.ev))

\* Execute has returned to its caller.
Returned == phase = "done" /\ exec.state = "returned"

\* The first registry miss of the Execute is one of the top-level name.
TopLevelMiss == exec.misses[1].depth = 0

\* C11: whenever a registry lookup has missed during a render, for the top-level name
\* or for a Partial anywhere in the tree, Execute returns the error "template not
\* available: <name>" of that miss, and nothing is written when the top-level name
\* missed.
MissingTemplateReported ==
    (Returned /\ exec.misses # <<>>)
        => /\ exec.err = notAvailable(exec.misses[1].name)
           /\ TopLevelMiss => wr = <<>>

\* A child of a List has failed: the lookup of a Partial missed below the root.
ChildFailed(m) == m.depth > 0

\* C12: as soon as a child of a List has failed no later sibling is rendered, so that
\* nothing is written after the failure, and Execute returns the child's error; the
\* output written before the failure stays in the writer.
SiblingsAfterFailureSkipped ==
    \A i \in DOMAIN exec.misses :
        ChildFailed(exec.misses[i])
            => /\ Len(wr) = exec.misses[i].written
               /\ Returned => exec.err = notAvailable(exec.misses[1].name)

\* Execute of the parsed template has returned normally, having written text.
Writes(text) == Returned /\ exec.err = NoError /\ wr = text

\* C13: with the parent template (($greeting))hello((/greeting)) registered as
\* parent, Execute of the child ((<parent))(($greeting))hi((/greeting))((/parent))
\* writes hi, and Execute of the parent, under either name, writes hello.
InheritanceOverrides ==
    /\ (Rendered /\ input = ChildSource) => Writes(<<"h", "i">>)
    /\ (Rendered /\ input = ParentSource) => Writes(<<"h", "e", "l", "l", "o">>)
    /\ (phase = "done" /\ exec.name = ParentName) => Writes(<<"h", "e", "l", "l", "o">>)

\* A section over the name a with the body x, inverted or not.
SectionSource(c) == tag(<<c, "a">>) \o <<"x">> \o tag(<<"/", "a">>)

\* What name stands for in data.
Resolve(data, name) == IF name \in DOMAIN data THEN data[name] ELSE <<>>

\* n copies of text.
RECURSIVE Repeat(_, _)
Repeat(text, n) == IF n = 0 THEN <<>> ELSE text \o Repeat(text, n - 1)

\* C14: a non-inverted Section whose head stands for a sequence of N elements renders
\* its body N times (not at all for an empty sequence), and the inverted Section over
\* the same data renders its body once exactly when the non-inverted one renders it
\* not at all.
SectionRendersPerElement ==
    /\ (Rendered /\ input = SectionSource("#"))
           => Writes(Repeat(<<"x">>, Len(Resolve(exec.data, <<"a">>))))
    /\ (Rendered /\ input = SectionSource("^"))
           => Writes(IF Len(Resolve(exec.data, <<"a">>)) = 0 THEN <<"x">> ELSE <<>>)

\* C15: every tree of the registry was returned by a successful Parse, and rendering
\* one never reaches the renderer's panic("unknown node"), whichever tags its source
\* has.
ParsedTreesNeverPanic == exec.state # "panic"

\* Goroutine g has got the result of a Get.
GetReturned(g) == store.g[g].op = "Get" /\ store.g[g].pc \in {"Unlock", "idle"}

\* C16: under every interleaving of callers of Get and Set, no goroutine reads the map
\* while another writes it and no two write it at once; a Get of a name returns the
\* node of the latest completed Set of that name and true, or nil and false when the
\* name was never set; and when no call holds the mutex the map holds, for every
\* name, the latest completed Set of it, so that a Set of one name changes no other.
NodeMapSafe ==
    /\ Cardinality(Writing(store)) <= 1
    /\ Writing(store) # {} => Reading(store) = {}
    /\ \A g \in Goroutines : GetReturned(g) => store.g[g].ret = store.g[g].latest
    /\ store.mu = Unlocked => store.m = store.completed

\* Both names have been set by completed calls, to different nodes; one goroutine has
\* got the node of a name from Get and still holds the mutex, and the other waits for
\* the mutex to set that name to the other node.
GetWhileSetWaits ==
    \E g, h \in Goroutines :
        /\ g # h
        /\ DOMAIN store.completed = StoreNames
        /\ \E a, b \in StoreNames : store.completed[a] # store.completed[b]
        /\ store.g[g].op = "Get" /\ store.g[g].pc = "Unlock" /\ store.mu = g
        /\ store.g[g].ret = [node |-> store.completed[store.g[g].name], ok |-> TRUE]
        /\ store.g[h].op = "Set" /\ store.g[h].pc = "Lock"
        /\ store.g[h].name = store.g[g].name
        /\ store.g[h].node # store.g[g].ret.node

\* The offsets (from 1) of byte c in s.
Offsets(s, c) == {i \in 1..Len(s) : s[i] = c}

\* The offset of the last '/' of s, 0 when it has none.
AfterLastSlash(s) ==
    IF Offsets(s, "/") = {} THEN 0
    ELSE CHOOSE i \in Offsets(s, "/") : \A j \in Offsets(s, "/") : j <= i

\* The offsets of the dots of s after its last '/'.
ExtensionDots(s) == {i \in Offsets(s, ".") : i > AfterLastSlash(s)}

\* r is s cut just before the first '.' after the last '/', or s when there is none.
CutAtFirstExtension(s, r) ==
    IF ExtensionDots(s) = {} THEN r = s
    ELSE \E i \in ExtensionDots(s) :
            /\ \A j \in ExtensionDots(s) : i <= j
            /\ r = SubSeq(s, 1, i - 1)

\* C17: stripExt(f) is f cut just before the first '.' after the last '/' (the first
\* '.' of f when it has no '/'), and f itself when no '.' follows the last '/'.
StripExtCutsFirstExtension == file.done => CutAtFirstExtension(file.name, file.stripped)

\* stripExt has made a.b.c/abc of a.b.c/abc.tar.gz.
StripExtOfNestedName ==
    /\ file.done
    /\ file.name
          = <<"a", ".", "b", ".", "c", "/", "a", "b", "c", ".", "t", "a", "r", ".", "g", "z">>
    /\ file.stripped = <<"a", ".", "b", ".", "c", "/", "a", "b", "c">>

\* EOF and error items end what collect gathers.
Terminal(it) == it.typ \in {"itemEOF", "itemError"}

IsDelimiter(it) == it.typ \in {"itemLeftDelim", "itemRightDelim"}

\* The lexer's step i sends a terminal item.
SendsTerminal(ev, i) == IsEmit(ev[i]) /\ Terminal(ev[i].item)

\* The lexer's last step sends a terminal item, and none before does.
EndsWithOneTerminal(ev) ==
    /\ ev # <<>>
    /\ \A i \in DOMAIN ev : SendsTerminal(ev, i) <=> i = Len(ev)

\* No tag is open after the items: the last delimiter, if any, is a right delimiter.
NoTagOpen(delims) == delims = <<>> \/ delims[Len(delims)].typ = "itemRightDelim"

\* An EOF item is sent by lexText, with no tag open.
EOFFromText(ev) ==
    LastEv([ev |-> ev]).item.typ = "itemEOF"
        => /\ LastEv([ev |-> ev]).state = "lexText"
           /\ NoTagOpen(SelectSeq(Items(ev), IsDelimiter))

\* C18: the lexer's token stream ends with exactly one terminal token, EOF or error;
\* nothing is sent and no step is made after it; EOF is sent only by lexText, never
\* inside an open tag; and the lexer goroutine has made all its steps once the parser
\* has received the terminal token.
TokenStreamTerminates ==
    phase = "parsed"
        => /\ EndsWithOneTerminal(lexer.ev)
           /\ EOFFromText(lexer.ev)
           /\ (parser.received > 0 /\ Terminal(parser.token0)) => ~LexerPending

\* The lexer has sent an error inside a tag and stopped, with a left delimiter in the
\* input after the place of the error that it never scans.
ErrorEndsStream ==
    /\ phase = "parsed"
    /\ ~LexerPending
    /\ parser.token0.typ = "itemError"
    /\ Len(SelectSeq(Items(lexer.ev), IsDelimiter)) = 1
    /\ Index(Drop(input, lexer.pos), leftDelim) > -1

\* The number of items the lexer goroutine has sent so far.
Sent == Cardinality({i \in 1..lexer.at : IsEmit(lexer.ev[i])})

\* The lexer goroutine is blocked in l.items <- item.
Sending == LexerPending /\ LexerNext.k = "emit"

\* C19: the lexer and the parser hand tokens over one at a time: every token the lexer
\* has sent has been received, so that the lexer cannot send token k+1 before the
\* parser has taken token k and at most the one token it is sending waits; and the
\* token the parser received last is token k of the lexer's stream, k being the number
\* of tokens received, so that none is lost, duplicated or out of order.
HandoffOfDepthOne ==
    phase \in {"parsing", "parsed"}
        => /\ Sent = parser.received
           /\ parser.received > 0
                 => /\ parser.token0 = Items(lexer.ev)[parser.received]
                    /\ lexer.lastPos = parser.token0.pos

\* The parser has taken two tokens and is about to record an error while the lexer
\* goroutine is blocked sending the third.
TokenWaitsForParser ==
    /\ phase = "parsing"
    /\ parser.received = 2
    /\ Sending
    /\ LexerNext.item = Items(lexer.ev)[3]
    /\ ParserPending /\ ParserNext.k = "errorf"

\* Delimiter d stands at offset i (from 0) of text.
DelimAt(text, i, d) == i + Len(d) <= Len(text) /\ Slice(text, i, i + Len(d)) = d

\* The offsets from offset a on at which a right delimiter stands with no left
\* delimiter standing or starting before its end.
CommentEnds(text, a) ==
    {i \in a..Len(text) :
        /\ DelimAt(text, i, rightDelim)
        /\ \A j \in a..(i + Len(rightDelim) - 1) : ~DelimAt(text, j, leftDelim)}

\* Item k is the tag type '!'.
IsBang(items, k) == items[k].typ = "itemTagType" /\ items[k].val = <<"!">>

\* After the '!' that is item k come one String item with the text up to the first
\* end of the comment and the right delimiter item, or, when the comment has no end,
\* the error and nothing more.
CommentLexed(text, items, k, ends) ==
    IF ends = {}
    THEN /\ Len(items) = k + 1
         /\ items[k + 1] = item("itemError", items[k].pos + 1, "unclosed comment")
    ELSE \E i \in ends :
            /\ \A j \in ends : i <= j
            /\ Len(items) >= k + 2
            /\ items[k + 1] = item("itemString", items[k].pos + 1,
                                    Slice(text, items[k].pos + 1, i))
            /\ items[k + 2] = item("itemRightDelim", i, rightDelim)

CommentsLexed(text, items) ==
    \A k \in DOMAIN items :
        IsBang(items, k) => CommentLexed(text, items, k, CommentEnds(text, items[k].pos + 1))

\* C20: after the tag-type character '!' the lexer sends exactly one String item
\* holding the text up to, and not including, the first right delimiter that occurs
\* before the next left delimiter, and then the right delimiter item; when no right
\* delimiter occurs before the next left delimiter or the end of the input it sends
\* the error "unclosed comment" and nothing else.
CommentIsOneString == phase = "parsed" => CommentsLexed(input, Items(lexer.ev))

\* The lexer has sent "unclosed comment" for a comment that a left delimiter cuts
\* short, although a right delimiter follows later in the input.
CommentCutByLeftDelim ==
    /\ phase = "parsed"
    /\ parser.token0 = item("itemError", 3, "unclosed comment")
    /\ Index(Drop(input, 3), rightDelim) > Index(Drop(input, 3), leftDelim)
    /\ Index(Drop(input, 3), leftDelim) > 0

\* The item's text is the input from its offset on.
TextAtOffset(text, it) ==
    /\ it.pos + Len(it.val) <= Len(text)
    /\ Slice(text, it.pos, it.pos + Len(it.val)) = it.val

\* Every item but an error holds the input at its offset, offsets never decrease, and
\* the offset of EOF is the length of the input.
OffsetsTracked(text, items) ==
    /\ \A k \in DOMAIN items :
          /\ items[k].typ # "itemError" => TextAtOffset(text, items[k])
          /\ items[k].typ = "itemEOF" => items[k].pos = Len(text)
          /\ 0 <= items[k].pos /\ items[k].pos <= Len(text)
    /\ \A k \in 1..(Len(items) - 1) : items[k].pos <= items[k + 1].pos

\* C21: every token the lexer sends carries the byte offset of its first byte: the
\* text of each token but an error is the input from that offset on, offsets never
\* decrease from one token to the next, and the offset of the EOF token is the length
\* of the input.
TokensCarryOffsets == phase = "parsed" => OffsetsTracked(input, Items(lexer.ev))

\* 0123((hello))xyz has given Text@0, LeftDelim@4, Identifier@6, RightDelim@11,
\* Text@13 and EOF@16.
TextAndTagOffsets ==
    /\ phase = "parsed"
    /\ input = TextAndTag
    /\ Items(lexer.ev)
          = << item("itemText", 0, <<"0", "1", "2", "3">>),
               item("itemLeftDelim", 4, leftDelim),
               item("itemIdentifier", 6, <<"h", "e", "l", "l", "o">>),
               item("itemRightDelim", 11, rightDelim),
               item("itemText", 13, <<"x", "y", "z">>),
               item("itemEOF", 16, <<>>) >>

\* C22: for a List, Section, Define or Inherit, Children() returns exactly the nodes
\* passed to Append, each once, in the order they were appended, across the buckets of
\* an Inherit as well as within them; so two calls on an unchanged node return the
\* same sequence.
ChildrenInAppendOrder ==
    \A k \in DOMAIN container.got : container.got[k] = container.appended

\* The elements of a sequence.
Range(q) == {q[i] : i \in DOMAIN q}

\* The nodes appended to a container, those of all buckets for an Inherit.
Appended(n) ==
    CASE n.kind \in {"list", "section", "define"} -> Range(n.children)
      [] n.kind = "inherit" -> UNION {Range(n.tmpls[b]) : b \in DOMAIN n.tmpls}
      [] OTHER -> {}

\* A node of kind close is in the tree of n.
RECURSIVE HoldsClose(_)
HoldsClose(n) == n.kind = "close" \/ \E c \in Appended(n) : HoldsClose(c)

\* C23: no tree Parse returns holds a Close node at any depth: the node of a closing
\* tag is compared by name with the container being parsed and never appended.
NoCloseNodeInTree == (phase = "parsed" /\ Succeeds) => ~HoldsClose(result.root)

\* Parse has returned a tree with an Inherit that holds a Define, each ended by its
\* closing tag.
InheritTreeReturned ==
    /\ phase = "parsed" /\ Succeeds
    /\ Len(Closes) = 2
    /\ \E n \in Appended(result.root) :
          n.kind = "inherit" /\ \E d \in Appended(n) : d.kind = "define"

\* The names of the Partials in the tree of n.
RECURSIVE PartialNames(_)
PartialNames(n) ==
    IF n.kind = "partial" THEN {Name(n)}
    ELSE UNION {PartialNames(c) : c \in Appended(n)}

\* The registered templates that template a includes.
Includes(a) == PartialNames(nodes[a]) \cap DOMAIN nodes

\* The templates reached from those of S through at most k further inclusions.
RECURSIVE ReachedFrom(_, _)
ReachedFrom(S, k) ==
    IF k = 0 THEN S ELSE ReachedFrom(S \cup UNION {Includes(b) : b \in S}, k - 1)

\* No registered template reaches itself through Partial references.
Acyclic ==
    \A a \in DOMAIN nodes : a \notin ReachedFrom(Includes(a), Cardinality(DOMAIN nodes))

\* execute is running on the root of a template while an earlier call on that root
\* has not returned.
Reentered ==
    \E i, j \in DOMAIN exec.stack :
        /\ i < j
        /\ exec.stack[i].node = exec.stack[j].node
        /\ exec.stack[i].node.kind = "list"

\* The tree of n holds text and Partials only.
RECURSIVE TextAndPartials(_)
TextAndPartials(n) ==
    \/ n.kind \in {"text", "partial"}
    \/ n.kind = "list" /\ \A c \in Appended(n) : TextAndPartials(c)

\* The template Execute was called for reaches itself through Partial references,
\* and it and the templates it reaches hold text and Partials only.
ReachesItself ==
    /\ exec.name \in DOMAIN nodes
    /\ exec.name \in ReachedFrom(Includes(exec.name), Cardinality(DOMAIN nodes))
    /\ \A b \in ReachedFrom({exec.name}, Cardinality(DOMAIN nodes)) :
          TextAndPartials(nodes[b])

\* C24: the renderer has no cycle guard: Execute of a template that reaches itself
\* through Partial references, directly or through another template, calls execute
\* on its root again, never returns from then on and recurses until the stack is
\* exhausted; with a registry in which no template reaches itself through Partials,
\* Execute never exhausts the stack and ends.
RecursesWithoutGuard ==
    /\ (phase = "executing" /\ ReachesItself) ~> Reentered
    /\ [](Reentered => exec.state \in {"running", "overflow"})
    /\ Reentered ~> (exec.state = "overflow")
    /\ []((phase \in {"executing", "done"} /\ Acyclic) => exec.state # "overflow")
    /\ (phase = "executing" /\ Acyclic) ~> (phase = "done")

\* Execute of t has exhausted the stack through the template q that includes t.
MutualInclusionOverflows ==
    /\ exec.state = "overflow"
    /\ input = MutualSource
    /\ Reentered
    /\ \E i \in DOMAIN exec.stack : exec.stack[i].node = nodes[IncluderName]

(***************************************************************************)
(* Termination of Parse                                                    *)
(***************************************************************************)

\* The call c of a state function consumed at least one byte of input.
Consumes(c) == c.to > c.from

\* The call c of a state function ended the scan: run leaves its loop.
EndsScan(c) == c.next = "nil"

\* The lexer goroutine has a token left to send.
HasTokenToSend == \E j \in (lexer.at + 1)..Len(lexer.ev) : lexer.ev[j].k = "emit"

\* The parser is in p.lex.nextItem().
Requesting == ParserPending /\ ParserNext.k = "recv"

\* A step of the lexer goroutine or of the parser can be taken.
ParseCanStep ==
    \/ LexerPending /\ LexerNext.k = "pos"
    \/ LexerPending /\ LexerNext.k = "emit" /\ Requesting
    \/ ParserPending /\ ParserNext.k \in {"errorf", "return"}

\* The lexer's state machine has come to its end with EOF or an error token sent last.
ScanEnds ==
    /\ lexer.calls # <<>>
    /\ EndsScan(lexer.calls[Len(lexer.calls)])
    /\ EndsWithOneTerminal(lexer.ev)

\* Every call of a lexer state function consumes at least one byte of input or ends
\* the scan.
EveryStateConsumes ==
    \A i \in DOMAIN lexer.calls : Consumes(lexer.calls[i]) \/ EndsScan(lexer.calls[i])

\* Of any three calls in a row of lexer state functions, one consumes at least one
\* byte of input or ends the scan.
EveryThirdStateConsumes ==
    \A i \in DOMAIN lexer.calls :
      \E j \in i..(i + 2) :
        j \in DOMAIN lexer.calls /\ (Consumes(lexer.calls[j]) \/ EndsScan(lexer.calls[j]))

\* The parser never waits for a token the lexer does not send, and asks for none
\* after it has received EOF or an error token; while Parse runs a step can be taken.
ParserNeverBlocks ==
    /\ phase = "parsing" => ParseCanStep
    /\ (phase = "parsing" /\ Requesting) => HasTokenToSend
    /\ (parser.received > 0 /\ Terminal(parser.token0)) => ~Requesting

\* C25 as stated: Parse terminates and never blocks, and every lexer state either
\* consumes at least one byte of input or ends the scan.
ParseTerminatesEveryStateConsumes ==
    /\ EveryStateConsumes
    /\ ScanEnds
    /\ ParserNeverBlocks

\* C25: Parse terminates on every input and never blocks: of any three calls in a row
\* of lexer state functions one consumes at least one byte of input or ends the scan
\* (a state function may hand over to the next without consuming: lexText at a left
\* delimiter, lexTag before an expression, lexExpressionTag and lexNameTag when they
\* dispatch, lexComment on an empty comment), so the lexer always reaches EOF or an
\* error token; the parser never requests a token after EOF or an error token, never
\* waits for a token that is not sent, and a step of Parse can always be taken until
\* it returns.
ParseTerminates ==
    /\ EveryThirdStateConsumes
    /\ ScanEnds
    /\ ParserNeverBlocks

\* Parse has returned the lexer's error for a tag cut short, whose lexTag and
\* lexExpressionTag handed over without consuming a byte.
UnclosedTagReturned ==
    /\ phase = "parsed"
    /\ input = leftDelim \o <<"a">>
    /\ parser.token0.typ = "itemError"
    /\ ~ParserPending
    /\ \E i \in DOMAIN lexer.calls :
         /\ lexer.calls[i].state = "lexTag"
         /\ ~Consumes(lexer.calls[i])

(***************************************************************************)
(* Parse and the interleaving of its two goroutines                        *)
(***************************************************************************)

\* The steps before step i in which the lexer goroutine writes l.pos.
PosWrites(ev, i) == {j \in 1..(i - 1) : j \in DOMAIN ev /\ ev[j].k = "pos"}

\* The greatest element of the non-empty set S of numbers.
Greatest(S) == CHOOSE j \in S : \A m \in S : m <= j

\* l.pos when the lexer goroutine is about to make step i.
PosBefore(ev, i) ==
    IF PosWrites(ev, i) = {} THEN 0 ELSE ev[Greatest(PosWrites(ev, i))].v

\* The steps in which the lexer goroutine sends its token number k or a later one.
SendsFrom(ev, k) ==
    {i \in DOMAIN ev : IsEmit(ev[i]) /\ Cardinality({j \in 1..i : IsEmit(ev[j])}) >= k}

\* The step at which the lexer goroutine waits once the parser has received k tokens:
\* the send of token k + 1, or the end of run.
WaitsAt(ev, k) ==
    IF SendsFrom(ev, k + 1) = {} THEN Len(ev) + 1
    ELSE CHOOSE i \in SendsFrom(ev, k + 1) : \A m \in SendsFrom(ev, k + 1) : i <= m

\* The error errorf records when the lexer goroutine has run as far as it can before
\* the parser calls errorf, e being what was noted at the call.
ErrorWithLexerAhead(e) ==
    errorText(ParseName, lineNumber(input, e.token0.pos),
              column(input, PosBefore(lexer.ev, WaitsAt(lexer.ev, e.received)),
                     e.token0.pos),
              e.msg)

\* The parser is about to read l.pos in errorf and the lexer goroutine is about to
\* write it.
RacyRead ==
    /\ phase = "parsing"
    /\ ParserPending /\ ParserNext.k = "errorf"
    /\ LexerPending /\ LexerNext.k = "pos"

\* C26: the result of Parse depends only on its arguments: errorf never reads l.pos
\* while the lexer goroutine is about to write it, and the error Parse returns for an
\* input is the same in every interleaving of the lexer goroutine and the parser,
\* column included: the one it returns when the lexer goroutine runs ahead.
ParseDependsOnArgumentsOnly ==
    /\ ~RacyRead
    /\ (phase = "parsed" /\ result.err # NoError) =>
          result.err = ErrorWithLexerAhead(parser.errs[Len(parser.errs)])

\* Parse has returned and the lexer goroutine it started still has a token to send:
\* nextItem is not called again, so the goroutine stays in l.items <- item.
LexerLeftBlocked == phase # "parsing" /\ HasTokenToSend

\* C27: by the time Parse returns, with a tree or with an error of the lexer or of the
\* parser, the lexer goroutine has no token left to send: it is never left blocked on
\* a send that nobody will receive.
LexerFinishedAtReturn == ~LexerLeftBlocked

=============================================================================
